---- MODULE Spec2Model ----
(***************************************************************************)
(* State-machine model of the swingshift survey backend                    *)
(* (src/backend/app.py, src/backend/models.py): the project question set   *)
(* and its bulk synchronisation, the response recorder (start / answer /   *)
(* complete), the result aggregator and the CSV export projector.          *)
(*                                                                         *)
(* Every HTTP handler is one action: it runs inside one request-scoped     *)
(* SQLAlchemy session and ends with one db.session.commit(), so a handler  *)
(* is one atomic step of the sequential model.  A handler that raises      *)
(* (a database IntegrityError) leaves the tables as they were and answers  *)
(* 500.  `last' is the HTTP exchange of the most recent request; for a     *)
(* completion it also tells which row was written and what it held.        *)
(* SpecAtomic alone takes a bulk sync statement by statement, to see what  *)
(* the requests served meanwhile can read.                                 *)
(*                                                                         *)
(* Conventions: SQL NULL / Python None / an absent JSON key is NULL (0)    *)
(* for ids, orders and timestamps, the string "NULL" for text columns and  *)
(* the empty sequence for list-valued columns.  Row ids start at 1.        *)
(***************************************************************************)
EXTENDS Integers, Sequences, FiniteSets, TLC

-----------------------------------------------------------------------------
(* Static data *)

NULL == 0

\* projects.id of the projects that exist (create_project is not modelled:
\* the projects are created before the behaviour starts)
Projects == {1, 2}
\* a project id no row has (get_or_404 fails on it)
ProjectIdInputs == Projects \cup {3}

\* master_questions.id of the seeded bank
Bank == {1, 2, 3}

\* Project.access_code: str(uuid.uuid4())[:8].upper(), unique per project
access_code == (1 :> "3F2A9C1B") @@ (2 :> "7D4E0A55")
\* access codes a client may put in the URL: exact, lower-cased, unknown
AccessCodeInputs == {"3F2A9C1B", "7d4e0a55", "00000000"}
\* str.upper() on those inputs
Upper(s) ==
    CASE s = "3F2A9C1B" -> "3F2A9C1B"
      [] s = "7d4e0a55" -> "7D4E0A55"
      [] OTHER -> s

StatusValues == {"draft", "active", "closed", "completed"}

\* request bodies of submit_answer: answer_text, answer_code, answer_numeric,
\* answer_multi as data.get(...) returns them
Payloads ==
    { [answer_text |-> "Yes",  answer_code |-> "a",    answer_numeric |-> 1,    answer_multi |-> <<>>],
      [answer_text |-> "No",   answer_code |-> "b",    answer_numeric |-> 2,    answer_multi |-> <<>>],
      [answer_text |-> "",     answer_code |-> "NULL", answer_numeric |-> NULL, answer_multi |-> <<"x", "y">>],
      [answer_text |-> "NULL", answer_code |-> "NULL", answer_numeric |-> NULL, answer_multi |-> <<>>] }

-----------------------------------------------------------------------------
VARIABLES
    fk,          \* TRUE iff the database enforces FOREIGN KEY constraints
    now,         \* last value datetime.utcnow() returned
    status,      \* projects.status, by project id
    opened_at,   \* projects.opened_at
    closed_at,   \* projects.closed_at
    pqs,         \* table project_questions
    cqs,         \* table custom_questions
    cros,        \* table custom_response_options
    responses,   \* table survey_responses
    answers,     \* table response_answers
    next_id,     \* next primary key of each table
    last,        \* the last request and its HTTP response
    order_high,  \* by project, the highest question_order a ProjectQuestion
                 \* of it was ever given (kept by SpecOrders)
    session,     \* the SQLAlchemy session of the bulk sync in flight (SpecAtomic)
    inflight,    \* the requests that have run their queries and not yet
                 \* committed (SpecRace, SpecNumbering)
    master_questions  \* table master_questions: id and question_number

db == <<status, opened_at, closed_at, pqs, cqs, cros, responses, answers, next_id>>
vars == <<fk, now, status, opened_at, closed_at, pqs, cqs, cros, responses, answers,
          next_id, last, order_high, session, inflight,
          master_questions>>

-----------------------------------------------------------------------------
(* Helpers shared by the handlers *)

Max2(a, b) == IF a >= b THEN a ELSE b

RECURSIVE SetMax(_)
\* max(...) of a finite set of naturals, 0 for the empty set
\* (max([...], default=0) and `func.max(...).scalar() or 0')
SetMax(S) ==
    IF S = {} THEN 0
    ELSE LET x == CHOOSE y \in S : TRUE IN Max2(x, SetMax(S \ {x}))

\* Project.query.filter_by(access_code=access_code.upper()).first()
ProjectByCode(ac) ==
    IF \E p \in Projects : access_code[p] = Upper(ac)
    THEN CHOOSE p \in Projects : access_code[p] = Upper(ac)
    ELSE NULL

\* the HTTP response of a request that changed nothing
Reply(op, p, code) ==
    last' = [op |-> op, project |-> p, status |-> code, body |-> [kind |-> "none"]]

Fail(op, p, code) ==
    /\ Reply(op, p, code)
    /\ UNCHANGED <<fk, now, db>>

\* the HTTP response of a request that failed the admin check
\* (require_admin: X-API-Key header against ADMIN_API_KEY)
Unauthorized(op) == Fail(op, NULL, 401)

-----------------------------------------------------------------------------
(* Tables *)

PQIds == {pq.id : pq \in pqs}
CQIds == {cq.id : cq \in cqs}

\* ProjectQuestion.query.filter_by(project_id=...).all()
ProjectQuestionsOf(p) == {pq \in pqs : pq.project_id = p}
\* CustomQuestion.query.filter_by(project_id=...).all()
CustomQuestionsOf(p) == {cq \in cqs : cq.project_id = p}
\* project.responses
ResponsesOf(p) == {r \in responses : r.project_id = p}

\* SurveyResponse.__init__: response_code = str(uuid.uuid4()), a value no
\* stored response carries (the column is UNIQUE)
Uuid4 ==
    LET used == {r.response_code : r \in responses}
    IN  CHOOSE c \in 11..(11 + Cardinality(used)) : c \notin used

\* response codes a respondent may send: the issued ones and one that was
\* never issued
ResponseCodeInputs == {r.response_code : r \in responses} \cup {99}

\* a check that lets every project through once it has left `draft'
SurveyIsOpenedOnce(p) == status[p] # "draft"

\* `project.status != 'active'' is the negation of this
SurveyIsActive(p) == status[p] = "active"

\* a guard that looks at the wrong column of response_answers
HasResponsesWrongColumn(pq_id) == \E a \in answers : a.custom_question_id = pq_id

\* ResponseAnswer.query.filter_by(project_question_id=pq.id).first() is not None
HasResponses(pq_id) == \E a \in answers : a.project_question_id = pq_id

\* a guard that counts only the answers of completed responses
HasCustomResponsesCompleted(cq_id) ==
    \E a \in answers : /\ a.custom_question_id = cq_id
                       /\ \E r \in responses : r.id = a.response_id /\ r.is_complete

\* ResponseAnswer.query.filter_by(custom_question_id=cq.id).first() is not None
HasCustomResponses(cq_id) == \E a \in answers : a.custom_question_id = cq_id

\* the foreign keys of a response_answers row point at stored rows
\* (checked by the database only when it enforces foreign keys)
AnswerForeignKeysOk(pq_id, cq_id) ==
    /\ pq_id # NULL => pq_id \in PQIds
    /\ cq_id # NULL => cq_id \in CQIds

-----------------------------------------------------------------------------
(* Response recorder *)

\* POST /api/survey/<access_code>/start
start_survey(ac, t) ==
    LET p == ProjectByCode(ac) IN
    IF p = NULL THEN Fail("start_survey", NULL, 404)
    ELSE IF ~SurveyIsActive(p) THEN Fail("start_survey", p, 400)
    ELSE
        /\ LET code == Uuid4
                row == [id |-> next_id.resp, project_id |-> p, response_code |-> code,
                        is_complete |-> FALSE, completed_at |-> NULL, last_activity |-> t]
            IN  /\ responses' = responses \cup {row}
                /\ next_id' = [next_id EXCEPT !.resp = @ + 1]
                /\ now' = t
                /\ last' = [op |-> "start_survey", project |-> p, status |-> 201,
                            body |-> [kind |-> "started", response_code |-> code]]
        /\ UNCHANGED <<fk, status, opened_at, closed_at, pqs, cqs, cros, answers>>

\* the existing-answer lookup of submit_answer: the rows `.first()' may
\* return; the empty set when `existing' stays None
ExistingAnswers(response_id, pq_id, cq_id) ==
    IF pq_id # NULL
    THEN {a \in answers : a.response_id = response_id /\ a.project_question_id = pq_id}
    ELSE IF cq_id # NULL
    THEN {a \in answers : a.response_id = response_id /\ a.custom_question_id = cq_id}
    ELSE {}

\* an answer handler that reopens the response it writes to
submit_answer_reopening(ac, rc, pq_id, cq_id, data, t) ==
    LET p == ProjectByCode(ac) IN
    IF p = NULL THEN Fail("submit_answer", NULL, 404)
    ELSE IF ~SurveyIsActive(p) THEN Fail("submit_answer", p, 400)
    ELSE IF ~\E r \in responses : r.response_code = rc /\ r.project_id = p
    THEN Fail("submit_answer", p, 404)
    ELSE
        LET response == CHOOSE r \in responses : r.response_code = rc /\ r.project_id = p
            found == ExistingAnswers(response.id, pq_id, cq_id)
            row == [id |-> next_id.ans, response_id |-> response.id,
                    project_question_id |-> pq_id, custom_question_id |-> cq_id,
                    answer_text |-> data.answer_text, answer_code |-> data.answer_code,
                    answer_numeric |-> data.answer_numeric,
                    answer_multi |-> data.answer_multi]
        IN
            /\ answers' = IF found # {} THEN answers ELSE answers \cup {row}
            /\ next_id' = IF found # {} THEN next_id ELSE [next_id EXCEPT !.ans = @ + 1]
            /\ responses' = (responses \ {response}) \cup
                    {[response EXCEPT !.is_complete = FALSE, !.last_activity = t]}
            /\ now' = t
            /\ last' = [op |-> "submit_answer", project |-> p, status |-> 200,
                        body |-> [kind |-> "saved"]]
            /\ UNCHANGED <<fk, status, opened_at, closed_at, pqs, cqs, cros>>

\* POST /api/survey/<access_code>/answer
submit_answer(ac, rc, pq_id, cq_id, data, t) ==
    LET p == ProjectByCode(ac) IN
    IF p = NULL THEN Fail("submit_answer", NULL, 404)
    ELSE IF ~SurveyIsActive(p) THEN Fail("submit_answer", p, 400)
    ELSE IF ~\E r \in responses : r.response_code = rc /\ r.project_id = p
    THEN Fail("submit_answer", p, 404)
    ELSE
        LET response == CHOOSE r \in responses : r.response_code = rc /\ r.project_id = p
            found == ExistingAnswers(response.id, pq_id, cq_id)
        IN
        IF found # {}
        THEN \E existing \in found :
            /\ answers' = (answers \ {existing}) \cup
                    {[existing EXCEPT !.answer_text = data.answer_text,
                                      !.answer_code = data.answer_code,
                                      !.answer_numeric = data.answer_numeric,
                                      !.answer_multi = data.answer_multi]}
            /\ responses' = (responses \ {response}) \cup
                    {[response EXCEPT !.last_activity = t]}
            /\ now' = t
            /\ last' = [op |-> "submit_answer", project |-> p, status |-> 200,
                        body |-> [kind |-> "saved"]]
            /\ UNCHANGED <<fk, status, opened_at, closed_at, pqs, cqs, cros, next_id>>
        ELSE IF fk /\ ~AnswerForeignKeysOk(pq_id, cq_id)
        THEN Fail("submit_answer", p, 500)
        ELSE
            /\ answers' = answers \cup
                    {[id |-> next_id.ans, response_id |-> response.id,
                      project_question_id |-> pq_id, custom_question_id |-> cq_id,
                      answer_text |-> data.answer_text, answer_code |-> data.answer_code,
                      answer_numeric |-> data.answer_numeric,
                      answer_multi |-> data.answer_multi]}
            /\ responses' = (responses \ {response}) \cup
                    {[response EXCEPT !.last_activity = t]}
            /\ now' = t
            /\ next_id' = [next_id EXCEPT !.ans = @ + 1]
            /\ last' = [op |-> "submit_answer", project |-> p, status |-> 200,
                        body |-> [kind |-> "saved"]]
            /\ UNCHANGED <<fk, status, opened_at, closed_at, pqs, cqs, cros>>

\* a completion that refuses a response whose project is not active
complete_survey_while_active(ac, rc, t) ==
    LET p == ProjectByCode(ac) IN
    IF p = NULL THEN Fail("complete_survey", NULL, 404)
    ELSE IF status[p] # "active" THEN Fail("complete_survey", p, 400)
    ELSE IF ~\E r \in responses : r.response_code = rc /\ r.project_id = p
    THEN Fail("complete_survey", p, 404)
    ELSE
        LET response == CHOOSE r \in responses : r.response_code = rc /\ r.project_id = p
        IN
            /\ responses' = (responses \ {response}) \cup
                    {[response EXCEPT !.is_complete = TRUE, !.completed_at = t,
                                      !.last_activity = t]}
            /\ now' = t
            /\ last' = [op |-> "complete_survey", project |-> p, status |-> 200,
                        body |-> [kind |-> "complete", response_id |-> response.id,
                                  completed_at |-> t, was_complete |-> response.is_complete]]
            /\ UNCHANGED <<fk, status, opened_at, closed_at, pqs, cqs, cros, answers, next_id>>

\* POST /api/survey/<access_code>/complete
complete_survey(ac, rc, t) ==
    LET p == ProjectByCode(ac) IN
    IF p = NULL THEN Fail("complete_survey", NULL, 404)
    ELSE IF ~\E r \in responses : r.response_code = rc /\ r.project_id = p
    THEN Fail("complete_survey", p, 404)
    ELSE
        LET response == CHOOSE r \in responses : r.response_code = rc /\ r.project_id = p
        IN
            /\ responses' = (responses \ {response}) \cup
                    {[response EXCEPT !.is_complete = TRUE, !.completed_at = t,
                                      !.last_activity = t]}
            /\ now' = t
            /\ last' = [op |-> "complete_survey", project |-> p, status |-> 200,
                        body |-> [kind |-> "complete", response_id |-> response.id,
                                  completed_at |-> t, was_complete |-> response.is_complete]]
            /\ UNCHANGED <<fk, status, opened_at, closed_at, pqs, cqs, cros, answers, next_id>>

-----------------------------------------------------------------------------
(* Projects *)

\* PUT /api/projects/<id>; new_status = "absent" when the body has no 'status'
update_project(project_id, auth, new_status, t) ==
    IF ~auth THEN Unauthorized("update_project")
    ELSE IF project_id \notin Projects THEN Fail("update_project", NULL, 404)
    ELSE IF new_status = "absent" THEN Fail("update_project", project_id, 200)
    ELSE
        /\ opened_at' = IF new_status = "active" /\ status[project_id] # "active"
                        THEN [opened_at EXCEPT ![project_id] = t] ELSE opened_at
        /\ closed_at' = IF new_status = "active" /\ status[project_id] # "active"
                        THEN closed_at
                        ELSE IF new_status = "closed" /\ status[project_id] # "closed"
                        THEN [closed_at EXCEPT ![project_id] = t] ELSE closed_at
        /\ status' = [status EXCEPT ![project_id] = new_status]
        /\ now' = t
        /\ last' = [op |-> "update_project", project |-> project_id, status |-> 200,
                    body |-> [kind |-> "project", status |-> new_status]]
        /\ UNCHANGED <<fk, pqs, cqs, cros, responses, answers, next_id>>

-----------------------------------------------------------------------------
(* Project question set *)

\* the JSON values a client may put in the id list: a number, a string, null
JsonInt(n) == [t |-> "int", n |-> n, s |-> ""]
JsonStr(s) == [t |-> "str", n |-> NULL, s |-> s]
JsonNull == [t |-> "null", n |-> NULL, s |-> ""]

\* the strings int() accepts, among those the model sends
IsIntLiteral(s) == s \in {"1", "2", "3"}
\* int(s) for such a string
ParseInt(s) == CASE s = "1" -> 1 [] s = "2" -> 2 [] s = "3" -> 3

\* str(n) for a small positive n
StrOf(n) == <<"1", "2", "3", "4", "5", "6", "7", "8", "9">>[n]

\* a filter that keeps the JSON numbers only: a string is never given to int()
SanitizeIdsNumbersOnly(raw_ids) ==
    {raw_ids[i].n : i \in {j \in DOMAIN raw_ids : raw_ids[j].t = "int"}}

RECURSIVE SanitizeIds(_)
\* the loop that fills new_question_ids: None, '' and 'undefined' are skipped,
\* int(qid) is added, a ValueError / TypeError skips the entry
SanitizeIds(raw_ids) ==
    IF raw_ids = <<>> THEN {}
    ELSE
        LET qid == Head(raw_ids)
            kept == IF qid.t = "null" THEN {}
                    ELSE IF qid.t = "str" /\ qid.s \in {"", "undefined"} THEN {}
                    ELSE IF qid.t = "int" THEN {qid.n}
                    ELSE IF IsIntLiteral(qid.s) THEN {ParseInt(qid.s)}
                    ELSE {}
        IN  kept \cup SanitizeIds(Tail(raw_ids))

\* json.dumps of a list of {text, code} objects: the stored blob keeps, in
\* order, each object's text and code
JsonDumps(opts) == [i \in 1..Len(opts) |-> <<opts[i].text, opts[i].code>>]

\* `json.dumps(custom_opts) if custom_opts else None' with
\* custom_opts = custom_options.get(str(mq_id), {}).get('customOptions', []);
\* custom_options is a set of [key, customOptions] entries, NULL is <<>>
OverrideBlob(custom_options, mq_id) ==
    LET hits == {e \in custom_options : e.key = StrOf(mq_id)}
        custom_opts == IF hits = {} THEN <<>>
                       ELSE (CHOOSE e \in hits : TRUE).customOptions
    IN  IF custom_opts # <<>> THEN JsonDumps(custom_opts) ELSE <<>>

\* the dicts {pq.master_question_id: pq for pq in existing_pqs} can be: when
\* two rows carry one bank id the row kept is the one the unordered query
\* returned last, which the database does not fix
ExistingByMq(existing_pqs) ==
    LET ids == {pq.master_question_id : pq \in existing_pqs}
    IN  {f \in [ids -> existing_pqs] : \A m \in ids : f[m].master_question_id = m}

RECURSIVE Ascending(_)
\* the order `for mq_id in to_add' visits a set of small ints (CPython keeps
\* ints below the table size in hash = value order)
Ascending(S) ==
    IF S = {} THEN <<>>
    ELSE LET m == CHOOSE x \in S : \A y \in S : x <= y
         IN  <<m>> \o Ascending(S \ {m})

\* the ProjectQuestion rows the `for mq_id in to_add' loop inserts
NewProjectQuestions(project_id, to_add, max_order, custom_options) ==
    LET order == Ascending(to_add)
    IN  { [id |-> next_id.pq + i - 1, project_id |-> project_id,
           master_question_id |-> order[i], question_order |-> max_order + i,
           custom_options_json |-> OverrideBlob(custom_options, order[i])]
          : i \in 1..Len(order) }

\* the part of both bulk handlers after the project lookup is written twice
\* in the source; each copy is translated on its own below, as the results
\* its run can have from the stored tables: the HTTP status, the body, and
\* the project_questions table and its next id after the commit

\* add_bulk_questions from `data = request.get_json()' on
add_bulk_questions_results(project_id, raw_ids, custom_options) ==
    LET new_question_ids == SanitizeIds(raw_ids)
        existing_pqs == ProjectQuestionsOf(project_id)
        existing_ids == {pq.master_question_id : pq \in existing_pqs}
        to_add == new_question_ids \ existing_ids
        to_remove == existing_ids \ new_question_ids
        to_update == new_question_ids \cap existing_ids
        max_order == SetMax({pq.question_order : pq \in existing_pqs})
    IN
    IF fk /\ ~(to_add \subseteq Bank)
    THEN {[status |-> 500, body |-> [kind |-> "none"], pqs |-> pqs, next_pq |-> next_id.pq]}
    ELSE
        { LET deleted == {existing_by_mq[m] : m \in {x \in to_remove :
                              ~HasResponses(existing_by_mq[x].id)}}
              touched == {existing_by_mq[m] : m \in to_update}
          IN  [status |-> 201,
               body |-> [kind |-> "sync", raw_ids |-> raw_ids,
                         added |-> to_add,
                         updated |-> to_update, removed |-> to_remove,
                         total |-> Cardinality(new_question_ids)],
               pqs |-> ((pqs \ deleted) \ touched)
                        \cup {[pq EXCEPT !.custom_options_json =
                                 OverrideBlob(custom_options, pq.master_question_id)]
                              : pq \in touched}
                        \cup NewProjectQuestions(project_id, to_add, max_order, custom_options),
               next_pq |-> next_id.pq + Cardinality(to_add)]
          : existing_by_mq \in ExistingByMq(existing_pqs) }

\* POST /api/projects/<id>/questions/bulk
add_bulk_questions(project_id, auth, raw_ids, custom_options) ==
    IF ~auth THEN Unauthorized("add_bulk_questions")
    ELSE IF project_id \notin Projects THEN Fail("add_bulk_questions", NULL, 404)
    ELSE \E result \in add_bulk_questions_results(project_id, raw_ids, custom_options) :
            /\ pqs' = result.pqs
            /\ next_id' = [next_id EXCEPT !.pq = result.next_pq]
            /\ last' = [op |-> "add_bulk_questions", project |-> project_id,
                        status |-> result.status, body |-> result.body]
            /\ UNCHANGED <<fk, now, status, opened_at, closed_at, cqs, cros,
                           responses, answers>>

\* a client sync that leaves the overrides of the kept rows as they are
update_project_questions_by_code_keeping_overrides(project, raw_ids, custom_options) ==
    LET new_question_ids == SanitizeIds(raw_ids)
        existing_pqs == ProjectQuestionsOf(project)
        existing_ids == {pq.master_question_id : pq \in existing_pqs}
        to_add == new_question_ids \ existing_ids
        to_remove == existing_ids \ new_question_ids
        to_update == new_question_ids \cap existing_ids
        max_order == SetMax({pq.question_order : pq \in existing_pqs})
    IN
    IF fk /\ ~(to_add \subseteq Bank)
    THEN {[status |-> 500, body |-> [kind |-> "none"], pqs |-> pqs, next_pq |-> next_id.pq]}
    ELSE
        { LET deleted == {existing_by_mq[m] : m \in {x \in to_remove :
                              ~HasResponses(existing_by_mq[x].id)}}
          IN  [status |-> 201,
               body |-> [kind |-> "sync", raw_ids |-> raw_ids,
                         added |-> to_add,
                         updated |-> to_update, removed |-> to_remove,
                         total |-> Cardinality(new_question_ids)],
               pqs |-> (pqs \ deleted)
                        \cup NewProjectQuestions(project, to_add, max_order, custom_options),
               next_pq |-> next_id.pq + Cardinality(to_add)]
          : existing_by_mq \in ExistingByMq(existing_pqs) }

\* update_project_questions_by_code from `data = request.get_json()' on
update_project_questions_by_code_results(project, raw_ids, custom_options) ==
    LET new_question_ids == SanitizeIds(raw_ids)
        existing_pqs == ProjectQuestionsOf(project)
        existing_ids == {pq.master_question_id : pq \in existing_pqs}
        to_add == new_question_ids \ existing_ids
        to_remove == existing_ids \ new_question_ids
        to_update == new_question_ids \cap existing_ids
        max_order == SetMax({pq.question_order : pq \in existing_pqs})
    IN
    IF fk /\ ~(to_add \subseteq Bank)
    THEN {[status |-> 500, body |-> [kind |-> "none"], pqs |-> pqs, next_pq |-> next_id.pq]}
    ELSE
        { LET deleted == {existing_by_mq[m] : m \in {x \in to_remove :
                              ~HasResponses(existing_by_mq[x].id)}}
              touched == {existing_by_mq[m] : m \in to_update}
          IN  [status |-> 201,
               body |-> [kind |-> "sync", raw_ids |-> raw_ids,
                         added |-> to_add,
                         updated |-> to_update, removed |-> to_remove,
                         total |-> Cardinality(new_question_ids)],
               pqs |-> ((pqs \ deleted) \ touched)
                        \cup {[pq EXCEPT !.custom_options_json =
                                 OverrideBlob(custom_options, pq.master_question_id)]
                              : pq \in touched}
                        \cup NewProjectQuestions(project, to_add, max_order, custom_options),
               next_pq |-> next_id.pq + Cardinality(to_add)]
          : existing_by_mq \in ExistingByMq(existing_pqs) }

\* POST /api/project/<access_code>/questions/bulk
update_project_questions_by_code(ac, raw_ids, custom_options) ==
    LET project == ProjectByCode(ac) IN
    IF project = NULL THEN Fail("update_project_questions_by_code", NULL, 404)
    ELSE \E result \in update_project_questions_by_code_results(project, raw_ids,
                                                                  custom_options) :
            /\ pqs' = result.pqs
            /\ next_id' = [next_id EXCEPT !.pq = result.next_pq]
            /\ last' = [op |-> "update_project_questions_by_code", project |-> project,
                        status |-> result.status, body |-> result.body]
            /\ UNCHANGED <<fk, now, status, opened_at, closed_at, cqs, cros,
                           responses, answers>>

\* the op names of the two bulk handlers
SyncOps == {"add_bulk_questions", "update_project_questions_by_code"}

\* a step in which one of the two bulk handlers reconciled a question set
SyncStep == last'.op \in SyncOps /\ last'.status = 201

\* the CustomResponseOption rows a handler inserts for the options it was
\* sent (display_order = i + 1 over enumerate(options))
NewOptions(cq_id, options) ==
    { [custom_question_id |-> cq_id, display_order |-> i, option_text |-> options[i]]
      : i \in 1..Len(options) }

\* POST /api/projects/<id>/questions: master_question_id and question_order are
\* NULL when the key is absent from the body
add_project_question(project_id, auth, master_question_id, question_order, options) ==
    IF ~auth THEN Unauthorized("add_project_question")
    ELSE IF project_id \notin Projects THEN Fail("add_project_question", NULL, 404)
    ELSE
        LET max_order == SetMax({pq.question_order : pq \in ProjectQuestionsOf(project_id)})
            max_custom == SetMax({cq.question_order : cq \in CustomQuestionsOf(project_id)})
            next_order == Max2(max_order, max_custom) + 1
            order == IF question_order # NULL THEN question_order ELSE next_order
        IN
        IF master_question_id # NULL
        THEN
            IF fk /\ master_question_id \notin Bank
            THEN Fail("add_project_question", project_id, 500)
            ELSE
                /\ pqs' = pqs \cup {[id |-> next_id.pq, project_id |-> project_id,
                                     master_question_id |-> master_question_id,
                                     question_order |-> order,
                                     custom_options_json |-> <<>>]}
                /\ next_id' = [next_id EXCEPT !.pq = @ + 1]
                \* after the commit pq.to_dict() reads pq.master_question, which
                \* is None for an id the bank does not have: the row is stored
                \* and the request answers 500
                /\ last' = [op |-> "add_project_question", project |-> project_id,
                            status |-> IF master_question_id \in Bank THEN 201 ELSE 500,
                            body |-> [kind |-> "pq", id |-> next_id.pq]]
                /\ UNCHANGED <<fk, now, status, opened_at, closed_at, cqs, cros,
                               responses, answers>>
        ELSE
            /\ cqs' = cqs \cup {[id |-> next_id.cq, project_id |-> project_id,
                                 question_order |-> order]}
            /\ cros' = cros \cup NewOptions(next_id.cq, options)
            /\ next_id' = [next_id EXCEPT !.cq = @ + 1]
            /\ last' = [op |-> "add_project_question", project |-> project_id,
                        status |-> 201,
                        body |-> [kind |-> "cq", id |-> next_id.cq]]
            /\ UNCHANGED <<fk, now, status, opened_at, closed_at, pqs, responses, answers>>

\* POST /api/projects/<id>/custom-questions
create_custom_question(project_id, auth, options) ==
    IF ~auth THEN Unauthorized("create_custom_question")
    ELSE IF project_id \notin Projects THEN Fail("create_custom_question", NULL, 404)
    ELSE
        LET max_order == SetMax({cq.question_order : cq \in CustomQuestionsOf(project_id)})
        IN  /\ cqs' = cqs \cup {[id |-> next_id.cq, project_id |-> project_id,
                                 question_order |-> max_order + 1]}
            /\ cros' = cros \cup NewOptions(next_id.cq, options)
            /\ next_id' = [next_id EXCEPT !.cq = @ + 1]
            /\ last' = [op |-> "create_custom_question", project |-> project_id,
                        status |-> 201, body |-> [kind |-> "cq", id |-> next_id.cq]]
            /\ UNCHANGED <<fk, now, status, opened_at, closed_at, pqs, responses, answers>>

\* POST /api/project/<access_code>/custom-questions
add_custom_question_by_code(ac, options) ==
    LET project == ProjectByCode(ac) IN
    IF project = NULL THEN Fail("add_custom_question_by_code", NULL, 404)
    ELSE
        LET max_order == SetMax({cq.question_order : cq \in CustomQuestionsOf(project)})
        IN  /\ cqs' = cqs \cup {[id |-> next_id.cq, project_id |-> project,
                                 question_order |-> max_order + 1]}
            /\ cros' = cros \cup NewOptions(next_id.cq, options)
            /\ next_id' = [next_id EXCEPT !.cq = @ + 1]
            /\ last' = [op |-> "add_custom_question_by_code", project |-> project,
                        status |-> 201, body |-> [kind |-> "cq", id |-> next_id.cq]]
            /\ UNCHANGED <<fk, now, status, opened_at, closed_at, pqs, responses, answers>>

\* DELETE /api/project/<access_code>/questions/<question_id>
delete_project_question_by_code(ac, question_id) ==
    LET project == ProjectByCode(ac) IN
    IF project = NULL THEN Fail("delete_project_question_by_code", NULL, 404)
    ELSE IF ~\E pq \in pqs : pq.id = question_id /\ pq.project_id = project
    THEN Fail("delete_project_question_by_code", project, 404)
    ELSE IF HasResponses(question_id)
    THEN Fail("delete_project_question_by_code", project, 400)
    ELSE
        /\ pqs' = {pq \in pqs : pq.id # question_id}
        /\ last' = [op |-> "delete_project_question_by_code", project |-> project,
                    status |-> 200, body |-> [kind |-> "deleted", id |-> question_id]]
        /\ UNCHANGED <<fk, now, status, opened_at, closed_at, cqs, cros, responses,
                       answers, next_id>>

\* DELETE /api/project/<access_code>/custom-questions/<question_id>
delete_custom_question_by_code(ac, question_id) ==
    LET project == ProjectByCode(ac) IN
    IF project = NULL THEN Fail("delete_custom_question_by_code", NULL, 404)
    ELSE IF ~\E cq \in cqs : cq.id = question_id /\ cq.project_id = project
    THEN Fail("delete_custom_question_by_code", project, 404)
    ELSE IF HasCustomResponses(question_id)
    THEN Fail("delete_custom_question_by_code", project, 400)
    ELSE
        /\ cros' = {o \in cros : o.custom_question_id # question_id}
        /\ cqs' = {cq \in cqs : cq.id # question_id}
        /\ last' = [op |-> "delete_custom_question_by_code", project |-> project,
                    status |-> 200, body |-> [kind |-> "deleted", id |-> question_id]]
        /\ UNCHANGED <<fk, now, status, opened_at, closed_at, pqs, responses,
                       answers, next_id>>

\* DELETE /api/projects/<id>/custom-questions/<question_id>: no look at the
\* answers; only a database that enforces the foreign key of
\* response_answers.custom_question_id refuses the commit
delete_custom_question(project_id, auth, question_id) ==
    IF ~auth THEN Unauthorized("delete_custom_question")
    ELSE IF ~\E cq \in cqs : cq.id = question_id /\ cq.project_id = project_id
    THEN Fail("delete_custom_question", NULL, 404)
    ELSE IF fk /\ HasCustomResponses(question_id)
    THEN Fail("delete_custom_question", project_id, 500)
    ELSE
        /\ cros' = {o \in cros : o.custom_question_id # question_id}
        /\ cqs' = {cq \in cqs : cq.id # question_id}
        /\ last' = [op |-> "delete_custom_question", project |-> project_id,
                    status |-> 200, body |-> [kind |-> "deleted", id |-> question_id]]
        /\ UNCHANGED <<fk, now, status, opened_at, closed_at, pqs, responses,
                       answers, next_id>>

-----------------------------------------------------------------------------
(* Result aggregator and export projector.  The operators take the tables   *)
(* they read as arguments; the handlers pass the stored ones.               *)

\* the join without the is_complete filter
JoinedAnswersOfAllResponses(resp_t, ans_t, project_id, pq_id, cq_id) ==
    { a \in ans_t :
        /\ \E r \in resp_t : r.id = a.response_id /\ r.project_id = project_id
        /\ IF pq_id # NULL THEN a.project_question_id = pq_id
                           ELSE a.custom_question_id = cq_id }

\* ResponseAnswer.query.join(SurveyResponse).filter(project_id, is_complete,
\* project_question_id == pq_id) when pq_id is truthy, custom_question_id ==
\* cq_id otherwise
JoinedAnswers(resp_t, ans_t, project_id, pq_id, cq_id) ==
    { a \in ans_t :
        /\ \E r \in resp_t : /\ r.id = a.response_id
                             /\ r.project_id = project_id
                             /\ r.is_complete = TRUE
        /\ IF pq_id # NULL THEN a.project_question_id = pq_id
                           ELSE a.custom_question_id = cq_id }

\* answer.answer_text or 'No Response'
DistributionKey(answer_text) ==
    IF answer_text = "NULL" \/ answer_text = "" THEN "No Response" ELSE answer_text

RECURSIVE Tally(_, _)
\* for answer in answers: distribution[key] = distribution.get(key, 0) + 1
Tally(rows, distribution) ==
    IF rows = {} THEN distribution
    ELSE
        LET answer == CHOOSE a \in rows : TRUE
            key == DistributionKey(answer.answer_text)
            seen == IF key \in DOMAIN distribution THEN distribution[key] ELSE 0
        IN  Tally(rows \ {answer},
                  [k \in DOMAIN distribution \cup {key} |->
                        IF k = key THEN seen + 1 ELSE distribution[k]])

\* the percentage cut after the first decimal instead of rounded
RoundPercentTruncated(count, total) == (count * 1000) \div total

\* round(count / total * 100, 1), in tenths of a percent: the nearest tenth,
\* a tie going to the even one (Python 3 rounds half to even)
RoundPercent(count, total) ==
    LET n == count * 1000
        q == n \div total
        r == n % total
    IN  IF 2 * r < total THEN q
        ELSE IF 2 * r > total THEN q + 1
        ELSE IF q % 2 = 0 THEN q ELSE q + 1

\* calculate_question_results; percentage is in tenths of a percent
calculate_question_results(resp_t, ans_t, project_id, pq_id, cq_id) ==
    LET rows == JoinedAnswers(resp_t, ans_t, project_id, pq_id, cq_id)
        total == Cardinality(rows)
        distribution == Tally(rows, [k \in {} |-> 0])
    IN  [total_responses |-> total,
         distribution |->
            [key \in DOMAIN distribution |->
                [count |-> distribution[key],
                 percentage |-> IF total > 0 THEN RoundPercent(distribution[key], total)
                                ELSE 0]]]

\* the `questions' list of get_project_results, keyed by kind and row id
ProjectResults(pq_t, cq_t, resp_t, ans_t, project_id) ==
    [pq |-> [id \in {q.id : q \in {x \in pq_t : x.project_id = project_id}} |->
                calculate_question_results(resp_t, ans_t, project_id, id, NULL)],
     cq |-> [id \in {q.id : q \in {x \in cq_t : x.project_id = project_id}} |->
                calculate_question_results(resp_t, ans_t, project_id, NULL, id)]]

\* GET /api/projects/<id>/results
get_project_results(project_id, auth) ==
    IF ~auth THEN Unauthorized("get_project_results")
    ELSE IF project_id \notin Projects THEN Fail("get_project_results", NULL, 404)
    ELSE IF \E pq \in ProjectQuestionsOf(project_id) : pq.master_question_id \notin Bank
    THEN \* pq.master_question is None: question.question_text raises
         Fail("get_project_results", project_id, 500)
    ELSE
        /\ last' = [op |-> "get_project_results", project |-> project_id, status |-> 200,
                    body |-> [kind |-> "results",
                              total |-> Cardinality(ResponsesOf(project_id)),
                              complete |-> Cardinality({r \in ResponsesOf(project_id) :
                                                            r.is_complete}),
                              questions |-> ProjectResults(pqs, cqs, responses, answers,
                                                           project_id)]]
        /\ UNCHANGED <<fk, now, db>>

\* the sequences .order_by(question_order) may return for a set of rows (rows
\* of equal order come in either order)
OrderedByQuestionOrder(rows) ==
    { seq \in [1..Cardinality(rows) -> rows] :
        /\ \A i, j \in DOMAIN seq : i # j => seq[i] # seq[j]
        /\ \A i, j \in DOMAIN seq : i < j => seq[i].question_order <= seq[j].question_order }

\* the header cell "Q" followed by the question_order
QLabel(n) == <<"Q1", "Q2", "Q3", "Q4", "Q5", "Q6", "Q7", "Q8", "Q9">>[n]

\* csv.writer writes None as the empty string
CsvCell(answer_text) == IF answer_text = "NULL" THEN "" ELSE answer_text

\* the values a cell can take: the answer_text of the .first() of the rows of
\* one response for one question, the empty string when there is none
CellTexts(ans_t, response_id, pq_id, cq_id) ==
    LET hits == { a \in ans_t :
                    /\ a.response_id = response_id
                    /\ IF pq_id # NULL THEN a.project_question_id = pq_id
                                       ELSE a.custom_question_id = cq_id }
    IN  IF hits = {} THEN {""} ELSE {CsvCell(a.answer_text) : a \in hits}

\* the data rows export_csv can write for one response: Response ID (the
\* first 8 characters of the code), Completed, then the cells
CsvRows(ans_t, response, pq_seq, cq_seq) ==
    { [response_id |-> response.response_code,
       completed |-> IF response.is_complete THEN "Yes" ELSE "No",
       cells |-> cells]
      : cells \in { c \in [1..(Len(pq_seq) + Len(cq_seq)) ->
                            {a.answer_text : a \in ans_t} \cup {""}] :
            \A i \in DOMAIN c :
                c[i] \in IF i <= Len(pq_seq)
                         THEN CellTexts(ans_t, response.id, pq_seq[i].id, NULL)
                         ELSE CellTexts(ans_t, response.id, NULL,
                                        cq_seq[i - Len(pq_seq)].id) } }

\* the data rows export_csv can write for the completed responses of the
\* project, by response id
CsvData(resp_t, ans_t, project_id, pq_seq, cq_seq) ==
    LET exported == {r \in resp_t : r.project_id = project_id /\ r.is_complete = TRUE}
        ids == {r.id : r \in exported}
        rows == [id \in ids |->
                    CsvRows(ans_t, CHOOSE r \in exported : r.id = id, pq_seq, cq_seq)]
    IN  { f \in [ids -> UNION {rows[id] : id \in ids}] : \A id \in ids : f[id] \in rows[id] }

\* the header row
CsvHeaders(pq_seq, cq_seq) ==
    <<"Response ID", "Completed">>
        \o [i \in DOMAIN pq_seq |-> QLabel(pq_seq[i].question_order)]
        \o [i \in DOMAIN cq_seq |-> QLabel(cq_seq[i].question_order)]

\* the files export_csv can return
CsvExports(pq_t, cq_t, resp_t, ans_t, project_id) ==
    UNION { UNION { { [headers |-> CsvHeaders(pq_seq, cq_seq), rows |-> rows]
                      : rows \in CsvData(resp_t, ans_t, project_id, pq_seq, cq_seq) }
                    : cq_seq \in OrderedByQuestionOrder({x \in cq_t : x.project_id = project_id}) }
            : pq_seq \in OrderedByQuestionOrder({x \in pq_t : x.project_id = project_id}) }

\* GET /api/projects/<id>/export/csv
export_csv(project_id, auth) ==
    IF ~auth THEN Unauthorized("export_csv")
    ELSE IF project_id \notin Projects THEN Fail("export_csv", NULL, 404)
    ELSE
        /\ \E file \in CsvExports(pqs, cqs, responses, answers, project_id) :
            last' = [op |-> "export_csv", project |-> project_id, status |-> 200,
                     body |-> [kind |-> "csv", headers |-> file.headers, rows |-> file.rows]]
        /\ UNCHANGED <<fk, now, db>>

-----------------------------------------------------------------------------
(* Initial states *)

\* no bulk sync is between its first query and its commit
NoSession == [phase |-> "none"]

\* the bank as seeded: question i of the master survey is row i
SeededBank == {[id |-> i, question_number |-> i] : i \in Bank}

\* the tables after db.create_all(), the seeded bank and the two projects
\* (created as drafts); the clock reads 1 and, except in SpecProject, the
\* requests of a behaviour arrive within one tick: every handler reads `now'
EmptyTables ==
    /\ now = 1
    /\ status = [p \in Projects |-> "draft"]
    /\ opened_at = [p \in Projects |-> NULL]
    /\ closed_at = [p \in Projects |-> NULL]
    /\ pqs = {}
    /\ cqs = {}
    /\ cros = {}
    /\ responses = {}
    /\ answers = {}
    /\ next_id = [pq |-> 1, cq |-> 1, resp |-> 1, ans |-> 1]
    /\ last = [op |-> "init", project |-> NULL, status |-> 0, body |-> [kind |-> "none"]]
    /\ order_high = [p \in Projects |-> 0]
    /\ session = NoSession
    /\ inflight = {}
    /\ master_questions = SeededBank

\* either kind of database: SQLite as configured by default (foreign keys not
\* enforced) or PostgreSQL from DATABASE_URL (enforced)
Init == fk \in BOOLEAN /\ EmptyTables

\* the default database only; every change of the tables that an enforcing
\* database allows is allowed here too
InitSqlite == fk = FALSE /\ EmptyTables

\* the tables stay within the bounds (a filter on the step's successor)
Within(max_pq, max_cq, max_resp, max_ans) ==
    /\ next_id'.pq <= max_pq + 1
    /\ next_id'.cq <= max_cq + 1
    /\ next_id'.resp <= max_resp + 1
    /\ next_id'.ans <= max_ans + 1

\* access codes of the two projects as a client may type them
KnownCodes == {"3F2A9C1B", "7d4e0a55"}
\* response codes that were issued
IssuedCodes == {r.response_code : r \in responses}

-----------------------------------------------------------------------------
(* SpecSync: the question sets under bulk sync, single add and single      *)
(* delete, while the respondents of project 1 answer bank questions        *)

\* ProjectQuestion rows ever inserted
SyncMaxPQ == 3
\* SurveyResponse rows ever inserted
SyncMaxResp == 1
\* ResponseAnswer rows ever inserted
SyncMaxAns == 1

\* id lists of the bulk sync
SyncIdLists ==
    { <<>>, <<JsonInt(1), JsonInt(2)>>, <<JsonInt(2), JsonInt(3)>> }

YesPayload == CHOOSE d \in Payloads : d.answer_text = "Yes"

\* client syncs: any list on project 1, one list on project 2
ClientSyncs ==
    ({"3F2A9C1B"} \X SyncIdLists) \cup {<<"7d4e0a55", <<JsonInt(2), JsonInt(3)>> >>}

NextSync ==
    \/ start_survey("3F2A9C1B", now) /\ Within(SyncMaxPQ, 0, SyncMaxResp, SyncMaxAns)
            /\ UNCHANGED <<order_high, session, inflight, master_questions>>
    \/ \E rc \in IssuedCodes, pq_id \in 1..SyncMaxPQ :
        submit_answer("3F2A9C1B", rc, pq_id, NULL, YesPayload, now)
            /\ Within(SyncMaxPQ, 0, SyncMaxResp, SyncMaxAns)
            /\ UNCHANGED <<order_high, session, inflight, master_questions>>
    \/ update_project(1, TRUE, "active", now)
            /\ UNCHANGED <<order_high, session, inflight, master_questions>>
    \/ \E raw_ids \in SyncIdLists :
        add_bulk_questions(1, TRUE, raw_ids, {})
            /\ Within(SyncMaxPQ, 0, SyncMaxResp, SyncMaxAns)
            /\ UNCHANGED <<order_high, session, inflight, master_questions>>
    \/ \E req \in ClientSyncs :
        update_project_questions_by_code(req[1], req[2], {})
            /\ Within(SyncMaxPQ, 0, SyncMaxResp, SyncMaxAns)
            /\ UNCHANGED <<order_high, session, inflight, master_questions>>
    \/ add_project_question(1, TRUE, 2, NULL, <<>>)
            /\ Within(SyncMaxPQ, 0, SyncMaxResp, SyncMaxAns)
            /\ UNCHANGED <<order_high, session, inflight, master_questions>>
    \/ \E question_id \in 1..SyncMaxPQ :
        delete_project_question_by_code("3F2A9C1B", question_id)
            /\ UNCHANGED <<order_high, session, inflight, master_questions>>

SpecSync == InitSqlite /\ [][NextSync]_vars

-----------------------------------------------------------------------------
(* SpecSurvey: the life of the responses of both projects while an admin   *)
(* opens both and moves project 1 between statuses                         *)

\* SurveyResponse rows ever inserted
SurveyMaxResp == 2
\* ResponseAnswer rows ever inserted
SurveyMaxAns == 1

YesNoPayloads == {d \in Payloads : d.answer_text \in {"Yes", "No"}}

NextSurvey ==
    \/ \E ac \in AccessCodeInputs :
        start_survey(ac, now) /\ Within(0, 0, SurveyMaxResp, SurveyMaxAns)
            /\ UNCHANGED <<order_high, session, inflight, master_questions>>
    \/ \E ac \in KnownCodes, rc \in ResponseCodeInputs, data \in YesNoPayloads :
        submit_answer(ac, rc, 1, NULL, data, now)
            /\ Within(0, 0, SurveyMaxResp, SurveyMaxAns)
            /\ UNCHANGED <<order_high, session, inflight, master_questions>>
    \/ \E ac \in AccessCodeInputs, rc \in ResponseCodeInputs :
        complete_survey(ac, rc, now)
            /\ UNCHANGED <<order_high, session, inflight, master_questions>>
    \/ \E new_status \in StatusValues \ {"draft"} :
        update_project(1, TRUE, new_status, now)
            /\ UNCHANGED <<order_high, session, inflight, master_questions>>
    \/ update_project(2, TRUE, "active", now)
            /\ UNCHANGED <<order_high, session, inflight, master_questions>>

SpecSurvey == InitSqlite /\ [][NextSurvey]_vars

-----------------------------------------------------------------------------
(* SpecAnswers: one respondent of project 1 answering bank and custom      *)
(* questions, with any question ids, while questions come and go           *)

\* ProjectQuestion rows ever inserted
AnswersMaxPQ == 2
\* CustomQuestion rows ever inserted
AnswersMaxCQ == 1
\* SurveyResponse rows ever inserted
AnswersMaxResp == 1
\* ResponseAnswer rows ever inserted
AnswersMaxAns == 2

NextAnswers ==
    \/ start_survey("3F2A9C1B", now)
            /\ Within(AnswersMaxPQ, AnswersMaxCQ, AnswersMaxResp, AnswersMaxAns)
            /\ UNCHANGED <<order_high, session, inflight, master_questions>>
    \/ \E rc \in IssuedCodes, pq_id \in 0..AnswersMaxPQ, cq_id \in 0..AnswersMaxCQ,
          data \in YesNoPayloads :
        submit_answer("3F2A9C1B", rc, pq_id, cq_id, data, now)
            /\ Within(AnswersMaxPQ, AnswersMaxCQ, AnswersMaxResp, AnswersMaxAns)
            /\ UNCHANGED <<order_high, session, inflight, master_questions>>
    \/ update_project(1, TRUE, "active", now)
            /\ UNCHANGED <<order_high, session, inflight, master_questions>>
    \/ \E mq \in {1, 2} :
        add_project_question(1, TRUE, mq, NULL, <<>>)
            /\ Within(AnswersMaxPQ, AnswersMaxCQ, AnswersMaxResp, AnswersMaxAns)
            /\ UNCHANGED <<order_high, session, inflight, master_questions>>
    \/ create_custom_question(1, TRUE, <<"Other">>)
            /\ Within(AnswersMaxPQ, AnswersMaxCQ, AnswersMaxResp, AnswersMaxAns)
            /\ UNCHANGED <<order_high, session, inflight, master_questions>>
    \/ add_custom_question_by_code("3F2A9C1B", <<>>)
            /\ Within(AnswersMaxPQ, AnswersMaxCQ, AnswersMaxResp, AnswersMaxAns)
            /\ UNCHANGED <<order_high, session, inflight, master_questions>>
    \/ \E question_id \in 1..AnswersMaxPQ :
        delete_project_question_by_code("3F2A9C1B", question_id)
            /\ UNCHANGED <<order_high, session, inflight, master_questions>>
    \/ \E question_id \in 1..AnswersMaxCQ :
        delete_custom_question_by_code("3F2A9C1B", question_id)
            /\ UNCHANGED <<order_high, session, inflight, master_questions>>
    \/ \E auth \in BOOLEAN, question_id \in 1..AnswersMaxCQ :
        delete_custom_question(1, auth, question_id)
            /\ UNCHANGED <<order_high, session, inflight, master_questions>>

SpecAnswers == Init /\ [][NextAnswers]_vars

-----------------------------------------------------------------------------
(* SpecResults: the aggregator and the export projector applied to the     *)
(* tables a survey of project 1 leaves behind.  The initial states are the *)
(* tables after the respondents started, answered (Q1 from the bank, the   *)
(* custom Q2) and, some of them, completed, in any order; the last         *)
(* respondent may belong to project 2 and have answered a question of      *)
(* project 1, which submit_answer accepts.                                 *)

\* SurveyResponse rows in the tables
ResultsResponses == 3

\* what respondent i did about Q1: nothing, or the last payload sent (an
\* absent answer_text from the first respondent only)
Q1Choices(i) ==
    {[answered |-> FALSE, data |-> YesPayload]}
        \cup {[answered |-> TRUE, data |-> d]
                : d \in {x \in Payloads : i = 1 \/ x.answer_text # "NULL"}}

\* the response_answers rows of a survey in which respondent i sent q1[i] for
\* Q1 and the first respondent answered the custom Q2 iff q2; ids in the
\* order the rows were inserted
DrawnAnswers(n, q1, q2) ==
    LET slots == {<<i, 1>> : i \in {j \in 1..n : q1[j].answered}}
                    \cup (IF q2 THEN {<<1, 2>>} ELSE {})
        rank(s) == Cardinality({u \in slots : 2 * u[1] + u[2] < 2 * s[1] + s[2]}) + 1
    IN  { [id |-> rank(s), response_id |-> s[1],
           project_question_id |-> IF s[2] = 1 THEN 1 ELSE NULL,
           custom_question_id |-> IF s[2] = 1 THEN NULL ELSE 1,
           answer_text |-> IF s[2] = 1 THEN q1[s[1]].data.answer_text ELSE "Yes",
           answer_code |-> IF s[2] = 1 THEN q1[s[1]].data.answer_code ELSE "a",
           answer_numeric |-> IF s[2] = 1 THEN q1[s[1]].data.answer_numeric ELSE 1,
           answer_multi |-> IF s[2] = 1 THEN q1[s[1]].data.answer_multi ELSE <<>>]
          : s \in slots }

InitResults ==
    /\ fk = FALSE
    /\ now = 1
    /\ status = [p \in Projects |-> "active"]
    /\ opened_at = [p \in Projects |-> 1]
    /\ closed_at = [p \in Projects |-> NULL]
    /\ pqs = {[id |-> 1, project_id |-> 1, master_question_id |-> 1,
               question_order |-> 1, custom_options_json |-> <<>>]}
    /\ cqs = {[id |-> 1, project_id |-> 1, question_order |-> 2]}
    /\ cros = {}
    /\ \E owner \in Projects, done \in [1..ResultsResponses -> BOOLEAN] :
        responses = { [id |-> i,
                       project_id |-> IF i = ResultsResponses THEN owner ELSE 1,
                       response_code |-> 10 + i,
                       is_complete |-> done[i],
                       completed_at |-> IF done[i] THEN 1 ELSE NULL,
                       last_activity |-> 1] : i \in 1..ResultsResponses }
    /\ \E q1 \in [1..ResultsResponses -> UNION {Q1Choices(i) : i \in 1..ResultsResponses}],
          q2 \in BOOLEAN :
        /\ \A i \in 1..ResultsResponses : q1[i] \in Q1Choices(i)
        /\ answers = DrawnAnswers(ResultsResponses, q1, q2)
    /\ next_id = [pq |-> 2, cq |-> 2, resp |-> ResultsResponses + 1,
                  ans |-> Cardinality(answers) + 1]
    /\ last = [op |-> "init", project |-> NULL, status |-> 0, body |-> [kind |-> "none"]]
    /\ order_high = [p \in Projects |-> 0]
    /\ session = NoSession
    /\ inflight = {}
    /\ master_questions = SeededBank

NextResults ==
    \/ \E project_id \in Projects : get_project_results(project_id, TRUE)
            /\ UNCHANGED <<order_high, session, inflight, master_questions>>
    \/ \E project_id \in Projects : export_csv(project_id, TRUE)
            /\ UNCHANGED <<order_high, session, inflight, master_questions>>

SpecResults == InitResults /\ [][NextResults]_vars

-----------------------------------------------------------------------------
(* SpecLifecycle: the responses of project 1 from start to completion      *)
(* while the project is opened and closed and its question set is synced,  *)
(* pruned and added to                                                     *)

\* ProjectQuestion rows ever inserted
LifeMaxPQ == 2
\* SurveyResponse rows ever inserted
LifeMaxResp == 1
\* ResponseAnswer rows ever inserted
LifeMaxAns == 1

\* id lists of the bulk sync
LifeIdLists == { <<>>, <<JsonInt(1)>> }

NextLifecycle ==
    \/ start_survey("3F2A9C1B", now) /\ Within(LifeMaxPQ, 0, LifeMaxResp, LifeMaxAns)
            /\ UNCHANGED <<order_high, session, inflight, master_questions>>
    \/ \E rc \in IssuedCodes :
        submit_answer("3F2A9C1B", rc, 1, NULL, YesPayload, now)
            /\ Within(LifeMaxPQ, 0, LifeMaxResp, LifeMaxAns)
            /\ UNCHANGED <<order_high, session, inflight, master_questions>>
    \/ \E rc \in ResponseCodeInputs : complete_survey("3F2A9C1B", rc, now)
            /\ UNCHANGED <<order_high, session, inflight, master_questions>>
    \/ \E new_status \in {"active", "closed"} : update_project(1, TRUE, new_status, now)
            /\ UNCHANGED <<order_high, session, inflight, master_questions>>
    \/ \E raw_ids \in LifeIdLists :
        add_bulk_questions(1, TRUE, raw_ids, {})
            /\ Within(LifeMaxPQ, 0, LifeMaxResp, LifeMaxAns)
            /\ UNCHANGED <<order_high, session, inflight, master_questions>>
    \/ \E raw_ids \in LifeIdLists :
        update_project_questions_by_code("3F2A9C1B", raw_ids, {})
            /\ Within(LifeMaxPQ, 0, LifeMaxResp, LifeMaxAns)
            /\ UNCHANGED <<order_high, session, inflight, master_questions>>
    \/ \E question_id \in 1..LifeMaxPQ :
        delete_project_question_by_code("3F2A9C1B", question_id)
            /\ UNCHANGED <<order_high, session, inflight, master_questions>>
    \/ add_project_question(1, TRUE, 2, NULL, <<>>)
            /\ Within(LifeMaxPQ, 0, LifeMaxResp, LifeMaxAns)
            /\ UNCHANGED <<order_high, session, inflight, master_questions>>

SpecLifecycle == InitSqlite /\ [][NextLifecycle]_vars

-----------------------------------------------------------------------------
(* SpecOrders: the question_order values of project 1 under bulk syncs,    *)
(* single deletes and new custom questions, and the export that lays the   *)
(* questions out by them                                                   *)

\* ProjectQuestion rows ever inserted
OrdersMaxPQ == 3
\* CustomQuestion rows ever inserted
OrdersMaxCQ == 1

\* id lists of the bulk sync
OrdersIdLists == { <<>>, <<JsonInt(1)>>, <<JsonInt(1), JsonInt(2)>> }

\* order_high follows the ProjectQuestion rows: a row is in the table right
\* after the step that inserted it, with the question_order it was given
RecordOrders ==
    order_high' = [p \in Projects |->
                      Max2(order_high[p],
                           SetMax({pq.question_order : pq \in {x \in pqs' : x.project_id = p}}))]

NextOrders ==
    \/ \E raw_ids \in OrdersIdLists :
        add_bulk_questions(1, TRUE, raw_ids, {})
            /\ Within(OrdersMaxPQ, OrdersMaxCQ, 0, 0)
            /\ RecordOrders /\ UNCHANGED <<session, inflight, master_questions>>
    \/ \E raw_ids \in OrdersIdLists :
        update_project_questions_by_code("3F2A9C1B", raw_ids, {})
            /\ Within(OrdersMaxPQ, OrdersMaxCQ, 0, 0)
            /\ RecordOrders /\ UNCHANGED <<session, inflight, master_questions>>
    \/ \E question_id \in 1..OrdersMaxPQ :
        delete_project_question_by_code("3F2A9C1B", question_id)
            /\ RecordOrders /\ UNCHANGED <<session, inflight, master_questions>>
    \/ create_custom_question(1, TRUE, <<>>)
            /\ Within(OrdersMaxPQ, OrdersMaxCQ, 0, 0)
            /\ RecordOrders /\ UNCHANGED <<session, inflight, master_questions>>
    \/ \E question_id \in 1..OrdersMaxCQ :
        delete_custom_question_by_code("3F2A9C1B", question_id)
            /\ RecordOrders /\ UNCHANGED <<session, inflight, master_questions>>
    \/ export_csv(1, TRUE)
            /\ RecordOrders /\ UNCHANGED <<session, inflight, master_questions>>

SpecOrders == InitSqlite /\ [][NextOrders]_vars

-----------------------------------------------------------------------------
(* SpecProject: an admin moving the projects between statuses while the    *)
(* clock advances                                                          *)

\* the last reading of the clock
ProjectMaxTime == 3

\* datetime.utcnow() at a later request: the last reading or a later one
UtcNow == {now, now + 1}

NextProject ==
    \E project_id \in ProjectIdInputs, auth \in BOOLEAN,
       new_status \in StatusValues \cup {"absent"}, t \in UtcNow :
        /\ t <= ProjectMaxTime
        /\ update_project(project_id, auth, new_status, t)
        /\ UNCHANGED <<order_high, session, inflight, master_questions>>

SpecProject == InitSqlite /\ [][NextProject]_vars

-----------------------------------------------------------------------------
(* SpecSanitize: the first bulk sync of the new project 1, admin or        *)
(* client, with any id list a client may send                              *)

\* entries of the longest id list
SanitizeMaxLen == 5

\* what an entry of the list may be: a number, a numeric string, a string
\* that is no number, the empty string, null
SanitizeEntries ==
    {JsonInt(1), JsonStr("3"), JsonStr("abc"), JsonStr(""), JsonNull}

SanitizeIdLists == UNION {[1..n -> SanitizeEntries] : n \in 0..SanitizeMaxLen}

\* the sync is the first request the new project receives
NextSanitize ==
    \/ /\ last.op = "init"
       /\ \E raw_ids \in SanitizeIdLists : add_bulk_questions(1, TRUE, raw_ids, {})
       /\ UNCHANGED <<order_high, session, inflight, master_questions>>
    \/ /\ last.op = "init"
       /\ \E raw_ids \in SanitizeIdLists :
            update_project_questions_by_code("3F2A9C1B", raw_ids, {})
       /\ UNCHANGED <<order_high, session, inflight, master_questions>>

SpecSanitize == Init /\ [][NextSanitize]_vars

-----------------------------------------------------------------------------
(* SpecAtomic: one bulk sync of project 1 taken statement by statement,    *)
(* while other requests are served: a reader of the survey and one         *)
(* respondent with one answer.  The writes of the sync stay in its         *)
(* SQLAlchemy session (`session') until db.session.commit(); the other     *)
(* requests read and write the committed tables.  A sync whose             *)
(* custom_options is not a JSON object raises at the first                 *)
(* custom_options.get(...) and ends with 500, its session discarded.       *)

\* ProjectQuestion rows ever inserted
AtomicMaxPQ == 2

\* id lists of the bulk sync
AtomicIdLists == { <<>>, <<JsonInt(1)>>, <<JsonInt(2)>> }

\* GET /api/survey/<access_code>: the ids of the questions it lists
get_survey(ac) ==
    LET p == ProjectByCode(ac) IN
    IF p = NULL THEN Fail("get_survey", NULL, 404)
    ELSE IF ~SurveyIsActive(p) THEN Fail("get_survey", p, 400)
    ELSE IF \E pq \in ProjectQuestionsOf(p) : pq.master_question_id \notin Bank
    THEN Fail("get_survey", p, 500)
    ELSE
        /\ last' = [op |-> "get_survey", project |-> p, status |-> 200,
                    body |-> [kind |-> "survey",
                              pq_ids |-> {pq.id : pq \in ProjectQuestionsOf(p)},
                              cq_ids |-> {cq.id : cq \in CustomQuestionsOf(p)}]]
        /\ UNCHANGED <<fk, now, db>>

\* The statements of add_bulk_questions; update_project_questions_by_code
\* has the same ones, and `op' tells which of the two routes was called.

\* a bulk sync up to `to_update = ...': the body is read and the existing
\* rows are queried; options_ok is FALSE when custom_options is no JSON object
sync_begin(op, project, raw_ids, options_ok) ==
    /\ session.phase = "none"
    /\ \E existing_by_mq \in ExistingByMq(ProjectQuestionsOf(project)) :
        session' = [phase |-> "loaded", op |-> op, project |-> project,
                    raw_ids |-> raw_ids, options_ok |-> options_ok,
                    new_question_ids |-> SanitizeIds(raw_ids),
                    existing_pqs |-> ProjectQuestionsOf(project),
                    existing_by_mq |-> existing_by_mq,
                    deleted |-> {}, touched |-> {}, to_add |-> {}]
    /\ UNCHANGED <<fk, now, db, last, order_high, inflight, master_questions>>

\* the session is discarded after an exception: 500, nothing written
sync_raise ==
    /\ Reply(session.op, session.project, 500)
    /\ session' = NoSession
    /\ UNCHANGED <<fk, now, db, order_high, inflight, master_questions>>

\* a remove loop that commits each deletion as it goes
sync_remove_committing ==
    /\ session.phase = "loaded"
    /\ LET existing_ids == DOMAIN session.existing_by_mq
           to_remove == existing_ids \ session.new_question_ids
           gone == {session.existing_by_mq[m] : m \in {x \in to_remove :
                        ~HasResponses(session.existing_by_mq[x].id)}}
       IN  /\ session' = [session EXCEPT !.phase = "removed", !.deleted = gone]
           /\ pqs' = pqs \ gone
    /\ UNCHANGED <<fk, now, status, opened_at, closed_at, cqs, cros, responses, answers,
                   next_id, last, order_high, inflight, master_questions>>

\* `for mq_id in to_remove': db.session.delete(pq) for the rows no answer
\* references
sync_remove ==
    /\ session.phase = "loaded"
    /\ LET existing_ids == DOMAIN session.existing_by_mq
           to_remove == existing_ids \ session.new_question_ids
       IN  session' = [session EXCEPT
                !.phase = "removed",
                !.deleted = {session.existing_by_mq[m] : m \in {x \in to_remove :
                                ~HasResponses(session.existing_by_mq[x].id)}}]
    /\ UNCHANGED <<fk, now, db, last, order_high, inflight, master_questions>>

\* `for mq_id in to_update': the override of each kept row is rewritten
sync_update ==
    /\ session.phase = "removed"
    /\ LET existing_ids == DOMAIN session.existing_by_mq
           to_update == session.new_question_ids \cap existing_ids
       IN  IF to_update # {} /\ ~session.options_ok THEN sync_raise
           ELSE /\ session' = [session EXCEPT
                        !.phase = "updated",
                        !.touched = {session.existing_by_mq[m] : m \in to_update}]
                /\ UNCHANGED <<fk, now, db, last, order_high, inflight, master_questions>>

\* `for mq_id in to_add': db.session.add(pq) for each new bank id
sync_add ==
    /\ session.phase = "updated"
    /\ LET existing_ids == DOMAIN session.existing_by_mq
           to_add == session.new_question_ids \ existing_ids
       IN  IF to_add # {} /\ ~session.options_ok THEN sync_raise
           ELSE /\ session' = [session EXCEPT !.phase = "added", !.to_add = to_add]
                /\ UNCHANGED <<fk, now, db, last, order_high, inflight, master_questions>>

\* db.session.commit() and the response: every pending write reaches the
\* tables, or none when the database refuses a new row
sync_commit ==
    /\ session.phase = "added"
    /\ LET existing_ids == DOMAIN session.existing_by_mq
           to_remove == existing_ids \ session.new_question_ids
           to_update == session.new_question_ids \cap existing_ids
           max_order == SetMax({pq.question_order : pq \in session.existing_pqs})
           orphaned == \E pq \in session.deleted : HasResponses(pq.id)
       IN  \* an enforcing database refuses a new row whose bank id does not
           \* exist and the deletion of a row an answer has come to reference
           IF fk /\ (~(session.to_add \subseteq Bank) \/ orphaned) THEN sync_raise
           ELSE /\ pqs' = ((pqs \ session.deleted) \ session.touched)
                        \cup {[pq EXCEPT !.custom_options_json = OverrideBlob({}, pq.master_question_id)]
                              : pq \in session.touched}
                        \cup NewProjectQuestions(session.project, session.to_add,
                                                 max_order, {})
                /\ next_id' = [next_id EXCEPT !.pq = @ + Cardinality(session.to_add)]
                /\ last' = [op |-> session.op, project |-> session.project,
                            status |-> 201,
                            body |-> [kind |-> "sync", raw_ids |-> session.raw_ids,
                                      added |-> session.to_add,
                                      updated |-> to_update, removed |-> to_remove,
                                      total |-> Cardinality(session.new_question_ids)]]
                /\ session' = NoSession
                /\ UNCHANGED <<fk, now, status, opened_at, closed_at, cqs, cros,
                               responses, answers, order_high, inflight,
                               master_questions>>

NextAtomic ==
    \/ \E op \in SyncOps, raw_ids \in AtomicIdLists, options_ok \in BOOLEAN :
        sync_begin(op, 1, raw_ids, options_ok)
    \/ sync_remove
    \/ sync_update
    \/ sync_add
    \/ sync_commit /\ Within(AtomicMaxPQ, 0, 1, 1)
    \/ update_project(1, TRUE, "active", now)
            /\ UNCHANGED <<order_high, session, inflight, master_questions>>
    \/ start_survey("3F2A9C1B", now)
            /\ Within(AtomicMaxPQ, 0, 1, 1)
            /\ UNCHANGED <<order_high, session, inflight, master_questions>>
    \/ \E rc \in IssuedCodes, pq_id \in 1..AtomicMaxPQ :
        submit_answer("3F2A9C1B", rc, pq_id, NULL, YesPayload, now)
            /\ Within(AtomicMaxPQ, 0, 1, 1)
            /\ UNCHANGED <<order_high, session, inflight, master_questions>>
    \/ get_survey("3F2A9C1B") /\ UNCHANGED <<order_high, session, inflight, master_questions>>

SpecAtomic == Init /\ [][NextAtomic]_vars

-----------------------------------------------------------------------------
(* SpecCompletion: the respondents of project 1 starting and completing,   *)
(* any number of times, while the clock advances                           *)

\* the last reading of the clock
CompletionMaxTime == 3
\* SurveyResponse rows ever inserted
CompletionMaxResp == 2

NextCompletion ==
    \/ update_project(1, TRUE, "active", now)
            /\ UNCHANGED <<order_high, session, inflight, master_questions>>
    \/ \E t \in UtcNow :
        /\ t <= CompletionMaxTime
        /\ start_survey("3F2A9C1B", t)
        /\ Within(0, 0, CompletionMaxResp, 0)
        /\ UNCHANGED <<order_high, session, inflight, master_questions>>
    \/ \E rc \in ResponseCodeInputs, t \in UtcNow :
        /\ t <= CompletionMaxTime
        /\ complete_survey("3F2A9C1B", rc, t)
        /\ UNCHANGED <<order_high, session, inflight, master_questions>>

SpecCompletion == InitSqlite /\ [][NextCompletion]_vars

-----------------------------------------------------------------------------
(* SpecRace: two submit_answer requests of one respondent of project 1,    *)
(* each taken in two steps: its queries up to the existing-answer lookup,  *)
(* then its writes and db.session.commit().  Between the two steps of one  *)
(* request the other may run.                                              *)

\* ResponseAnswer rows ever inserted
RaceMaxAns == 2

\* the requests a respondent has in flight at once (a double click)
RaceRequests == {1, 2}

\* submit_answer up to `if existing:': the project and the response are
\* found and the existing-answer lookup has returned a row or None
answer_begin(req, ac, rc, pq_id, cq_id, data) ==
    LET p == ProjectByCode(ac) IN
    /\ \A r \in inflight : r.req # req
    /\ p # NULL
    /\ SurveyIsActive(p)
    /\ \E response \in responses :
        /\ response.response_code = rc /\ response.project_id = p
        /\ LET found == ExistingAnswers(response.id, pq_id, cq_id)
           IN  \E existing \in IF found = {} THEN {NULL} ELSE {a.id : a \in found} :
                inflight' = inflight \cup
                    {[kind |-> "answer", req |-> req, project |-> p,
                      response_id |-> response.id,
                      project_question_id |-> pq_id, custom_question_id |-> cq_id,
                      data |-> data, existing |-> existing]}
    /\ UNCHANGED <<fk, now, db, last, order_high, session, master_questions>>

\* submit_answer from `if existing:' to the response: the row the lookup
\* returned is rewritten, or a new row is inserted when it returned None
answer_commit(req, t) ==
    \E rq \in inflight :
        /\ rq.kind = "answer" /\ rq.req = req
        /\ inflight' = inflight \ {rq}
        /\ IF rq.existing # NULL
           THEN /\ answers' = {IF a.id = rq.existing
                               THEN [a EXCEPT !.answer_text = rq.data.answer_text,
                                              !.answer_code = rq.data.answer_code,
                                              !.answer_numeric = rq.data.answer_numeric,
                                              !.answer_multi = rq.data.answer_multi]
                               ELSE a : a \in answers}
                /\ next_id' = next_id
           ELSE /\ answers' = answers \cup
                        {[id |-> next_id.ans, response_id |-> rq.response_id,
                          project_question_id |-> rq.project_question_id,
                          custom_question_id |-> rq.custom_question_id,
                          answer_text |-> rq.data.answer_text,
                          answer_code |-> rq.data.answer_code,
                          answer_numeric |-> rq.data.answer_numeric,
                          answer_multi |-> rq.data.answer_multi]}
                /\ next_id' = [next_id EXCEPT !.ans = @ + 1]
        /\ responses' = {IF r.id = rq.response_id THEN [r EXCEPT !.last_activity = t]
                         ELSE r : r \in responses}
        /\ now' = t
        /\ last' = [op |-> "submit_answer", project |-> rq.project, status |-> 200,
                    body |-> [kind |-> "saved"]]
        /\ UNCHANGED <<fk, status, opened_at, closed_at, pqs, cqs, cros, order_high,
                       session, master_questions>>

NextRace ==
    \/ update_project(1, TRUE, "active", now)
            /\ UNCHANGED <<order_high, session, inflight, master_questions>>
    \/ add_bulk_questions(1, TRUE, <<JsonInt(1)>>, {})
            /\ Within(1, 0, 1, RaceMaxAns)
            /\ UNCHANGED <<order_high, session, inflight, master_questions>>
    \/ start_survey("3F2A9C1B", now)
            /\ Within(1, 0, 1, RaceMaxAns)
            /\ UNCHANGED <<order_high, session, inflight, master_questions>>
    \/ \E req \in RaceRequests, rc \in IssuedCodes, data \in YesNoPayloads :
        /\ PQIds # {}
        /\ answer_begin(req, "3F2A9C1B", rc, 1, NULL, data)
    \/ \E req \in RaceRequests :
        answer_commit(req, now) /\ Within(1, 0, 1, RaceMaxAns)

SpecRace == Init /\ [][NextRace]_vars

-----------------------------------------------------------------------------
(* SpecOverrides: the option overrides of project 1's questions under bulk *)
(* syncs that carry custom_options and single adds                         *)

\* ProjectQuestion rows ever inserted
OverridesMaxPQ == 3

\* id lists of the bulk sync
OverridesIdLists == { <<>>, <<JsonInt(2)>>, <<JsonInt(1), JsonInt(2)>> }

\* the custom_options of a bulk sync: absent, an override for bank question
\* 2, another one, and an empty customOptions list for it
OverrideInputs ==
    { {},
      {[key |-> "2", customOptions |-> <<[text |-> "Maybe", code |-> "m"]>>]},
      {[key |-> "2", customOptions |-> <<[text |-> "Often", code |-> "o"]>>]},
      {[key |-> "2", customOptions |-> <<>>]} }

NextOverrides ==
    \/ \E raw_ids \in OverridesIdLists, custom_options \in OverrideInputs :
        add_bulk_questions(1, TRUE, raw_ids, custom_options)
            /\ Within(OverridesMaxPQ, 0, 0, 0)
            /\ UNCHANGED <<order_high, session, inflight, master_questions>>
    \/ \E raw_ids \in OverridesIdLists, custom_options \in OverrideInputs :
        update_project_questions_by_code("3F2A9C1B", raw_ids, custom_options)
            /\ Within(OverridesMaxPQ, 0, 0, 0)
            /\ UNCHANGED <<order_high, session, inflight, master_questions>>
    \/ add_project_question(1, TRUE, 2, NULL, <<>>)
            /\ Within(OverridesMaxPQ, 0, 0, 0)
            /\ UNCHANGED <<order_high, session, inflight, master_questions>>

SpecOverrides == Init /\ [][NextOverrides]_vars

-----------------------------------------------------------------------------
(* SpecDelete: the single-question deletes of the client, on bank and      *)
(* custom questions of project 1 that a respondent may have answered       *)

\* ProjectQuestion rows and CustomQuestion rows ever inserted, each
DeleteMaxQ == 1
\* ResponseAnswer rows ever inserted
DeleteMaxAns == 2

\* the (project_question_id, custom_question_id) pairs a respondent sends
DeleteAnswerTargets ==
    ((1..DeleteMaxQ) \X {NULL}) \cup ({NULL} \X (1..DeleteMaxQ))

NextDelete ==
    \/ update_project(1, TRUE, "active", now)
            /\ UNCHANGED <<order_high, session, inflight, master_questions>>
    \/ start_survey("3F2A9C1B", now)
            /\ Within(DeleteMaxQ, DeleteMaxQ, 1, DeleteMaxAns)
            /\ UNCHANGED <<order_high, session, inflight, master_questions>>
    \/ add_project_question(1, TRUE, 1, NULL, <<>>)
            /\ Within(DeleteMaxQ, DeleteMaxQ, 1, DeleteMaxAns)
            /\ UNCHANGED <<order_high, session, inflight, master_questions>>
    \/ create_custom_question(1, TRUE, <<"Red">>)
            /\ Within(DeleteMaxQ, DeleteMaxQ, 1, DeleteMaxAns)
            /\ UNCHANGED <<order_high, session, inflight, master_questions>>
    \/ \E rc \in IssuedCodes, target \in DeleteAnswerTargets :
        submit_answer("3F2A9C1B", rc, target[1], target[2], YesPayload, now)
            /\ Within(DeleteMaxQ, DeleteMaxQ, 1, DeleteMaxAns)
            /\ UNCHANGED <<order_high, session, inflight, master_questions>>
    \/ \E ac \in KnownCodes, question_id \in 1..DeleteMaxQ :
        delete_project_question_by_code(ac, question_id)
            /\ UNCHANGED <<order_high, session, inflight, master_questions>>
    \/ \E ac \in KnownCodes, question_id \in 1..DeleteMaxQ :
        delete_custom_question_by_code(ac, question_id)
            /\ UNCHANGED <<order_high, session, inflight, master_questions>>

SpecDelete == Init /\ [][NextDelete]_vars

-----------------------------------------------------------------------------
(* SpecNumbering: create_question requests that omit question_number, each *)
(* taken in two steps: the max(question_number) query, then the insert and *)
(* db.session.commit().  Between the two steps of one request others run.  *)

\* MasterQuestion rows the bank can hold
NumberingMaxRows == 6

\* the admin requests in flight at once
NumberingRequests == {1, 2, 3}

\* create_question up to the MasterQuestion(...) constructor: the admin
\* check, then `max_num = ...max(MasterQuestion.question_number)...scalar() or 0'
create_question_begin(req, auth) ==
    IF ~auth
    THEN Unauthorized("create_question")
            /\ UNCHANGED <<order_high, session, inflight, master_questions>>
    ELSE /\ \A r \in inflight : r.req # req
         /\ inflight' = inflight \cup
                {[kind |-> "create", req |-> req,
                  max_num |-> SetMax({m.question_number : m \in master_questions})]}
         /\ UNCHANGED <<fk, now, db, last, order_high, session, master_questions>>

\* create_question from the constructor to the response: the row gets
\* question_number = data.get('question_number', max_num + 1) with the key
\* absent, and the next id of the table
create_question_commit(req) ==
    \E rq \in inflight :
        /\ rq.kind = "create" /\ rq.req = req
        /\ inflight' = inflight \ {rq}
        /\ LET id == SetMax({m.id : m \in master_questions}) + 1
           IN  /\ master_questions' = master_questions \cup
                        {[id |-> id, question_number |-> rq.max_num + 1]}
               /\ last' = [op |-> "create_question", project |-> NULL, status |-> 201,
                           body |-> [kind |-> "question", id |-> id,
                                     question_number |-> rq.max_num + 1]]
        /\ UNCHANGED <<fk, now, db, order_high, session>>

NextNumbering ==
    \/ \E req \in NumberingRequests, auth \in BOOLEAN :
        create_question_begin(req, auth)
    \/ \E req \in NumberingRequests :
        /\ Cardinality(master_questions) < NumberingMaxRows
        /\ create_question_commit(req)

SpecNumbering == Init /\ [][NextNumbering]_vars

-----------------------------------------------------------------------------
(* Properties of the question set *)

\* C1: a bulk sync (admin or client) never deletes a ProjectQuestion row that
\* some ResponseAnswer references, even when its bank-question id is absent
\* from the desired set: the row is still there, with the same row id, after
\* the sync.
C1_SyncKeepsAnsweredQuestions ==
    [][ SyncStep =>
            \A pq \in pqs :
                (\E a \in answers : a.project_question_id = pq.id)
                    => \E kept \in pqs' : /\ kept.id = pq.id
                                          /\ kept.project_id = pq.project_id
                                          /\ kept.master_question_id = pq.master_question_id
      ]_vars

\* a sync answered 201 and an answered question whose bank id the desired
\* list left out is stored
C1_Witness ==
    /\ last.op \in SyncOps
    /\ last.status = 201
    /\ \E pq \in pqs :
        /\ pq.project_id = last.project
        /\ pq.master_question_id \in last.body.removed
        /\ \E a \in answers : a.project_question_id = pq.id

\* C2: after any sequence of submit_answer calls a response has at most one
\* ResponseAnswer row per ProjectQuestion and at most one per CustomQuestion.
C2_AtMostOneAnswerPerQuestion ==
    \A a, b \in answers :
        ( /\ a.response_id = b.response_id
          /\ \/ a.project_question_id # NULL
                    /\ a.project_question_id = b.project_question_id
             \/ a.custom_question_id # NULL
                    /\ a.custom_question_id = b.custom_question_id )
        => a = b

\* C3: bulk sync is a set reconciliation.  With E the bank ids of the
\* project's rows before the step and D the sanitized desired ids: every row
\* whose bank id is in D keeps its row id and question_order; every id of
\* D - E has exactly one row, a new one, whose order exceeds every order that
\* existed before; every row with no answer whose bank id is in E - D is gone
\* and so is its bank id.
C3_SyncIsSetReconciliation ==
    [][ SyncStep =>
            LET p == last'.project
                old == {q \in pqs : q.project_id = p}
                new == {q \in pqs' : q.project_id = p}
                E == {q.master_question_id : q \in old}
                D == last'.body.added \cup last'.body.updated
            IN  /\ \A q \in old :
                    q.master_question_id \in D
                        => \E n \in new : /\ n.id = q.id
                                          /\ n.master_question_id = q.master_question_id
                                          /\ n.question_order = q.question_order
                /\ \A m \in D \ E :
                    /\ Cardinality({n \in new : n.master_question_id = m}) = 1
                    /\ \A n \in new :
                        n.master_question_id = m
                            => /\ n.id \notin {q.id : q \in old}
                               /\ \A q \in old : n.question_order > q.question_order
                /\ \A q \in old :
                    ( /\ q.master_question_id \notin D
                      /\ ~\E a \in answers : a.project_question_id = q.id )
                        => ~\E n \in new : n.master_question_id = q.master_question_id
      ]_vars

\* C4: a ProjectQuestion or CustomQuestion row is deleted, by whichever
\* operation, only if no ResponseAnswer references it.
C4_DeleteOnlyUnanswered ==
    [][ /\ \A pq \in pqs :
            (\E a \in answers : a.project_question_id = pq.id)
                => \E kept \in pqs' : kept.id = pq.id
        /\ \A cq \in cqs :
            (\E a \in answers : a.custom_question_id = cq.id)
                => \E kept \in cqs' : kept.id = cq.id
      ]_vars

-----------------------------------------------------------------------------
(* Properties of the aggregator and the export *)

CompletedResponses == {r \in responses : r.is_complete}
AnswersOfCompleted == {a \in answers : \E r \in CompletedResponses : r.id = a.response_id}

\* C5: an answer of a response with is_complete = false is never counted by
\* get_project_results and never appears in a data row of export_csv: what
\* either returns is what it returns when the incomplete responses and their
\* answers are taken out of the tables, and the export has a row for
\* completed responses only.
C5_IncompleteResponsesExcluded ==
    /\ (last.op = "get_project_results" /\ last.status = 200)
        => last.body.questions =
                ProjectResults(pqs, cqs, CompletedResponses, AnswersOfCompleted, last.project)
    /\ (last.op = "export_csv" /\ last.status = 200)
        => /\ \A id \in DOMAIN last.body.rows : \E r \in CompletedResponses : r.id = id
           /\ [headers |-> last.body.headers, rows |-> last.body.rows]
                \in CsvExports(pqs, cqs, CompletedResponses, AnswersOfCompleted, last.project)

\* results were returned for a project in which a respondent who has not
\* completed answered Q1 and another who has completed answered it too
C5_Witness ==
    /\ last.op = "get_project_results"
    /\ last.status = 200
    /\ \E r \in responses, a \in answers :
        /\ r.project_id = last.project /\ ~r.is_complete
        /\ a.response_id = r.id /\ a.project_question_id = 1
    /\ \E r \in responses, a \in answers :
        /\ r.project_id = last.project /\ r.is_complete
        /\ a.response_id = r.id /\ a.project_question_id = 1

\* C6: for every question of the project the results carry total = the number
\* of answers to it by completed responses of the project; the distribution
\* has one key per answer_text of those answers ("No Response" for an empty
\* or absent text) with the number of those answers as count, so the counts
\* sum to total; each percentage is the tenth of a percent nearest to
\* count / total * 100; with total = 0 the distribution is empty.
C6_QuestionResults ==
    (last.op = "get_project_results" /\ last.status = 200) =>
        \A kind \in {"pq", "cq"} : \A id \in DOMAIN last.body.questions[kind] :
            LET res == last.body.questions[kind][id]
                total == res.total_responses
                counted == { a \in answers :
                    /\ IF kind = "pq" THEN a.project_question_id = id
                                      ELSE a.custom_question_id = id
                    /\ \E r \in responses : /\ r.id = a.response_id
                                            /\ r.project_id = last.project
                                            /\ r.is_complete }
                keyOf(a) == IF a.answer_text \in {"", "NULL"} THEN "No Response"
                                                              ELSE a.answer_text
            IN  /\ total = Cardinality(counted)
                /\ DOMAIN res.distribution = {keyOf(a) : a \in counted}
                /\ \A k \in DOMAIN res.distribution :
                    LET count == res.distribution[k].count
                        gap == res.distribution[k].percentage * total - 1000 * count
                    IN  /\ count = Cardinality({a \in counted : keyOf(a) = k})
                        /\ 2 * gap <= total
                        /\ -2 * gap <= total
                /\ total = 0 => DOMAIN res.distribution = {}

\* results were returned in which three completed respondents answered Q1,
\* two of them with no text (66.7 %), and nobody counted answered Q2
C6_Witness ==
    /\ last.op = "get_project_results"
    /\ last.status = 200
    /\ \E id \in DOMAIN last.body.questions.pq :
        LET res == last.body.questions.pq[id]
        IN  /\ res.total_responses = 3
            /\ "No Response" \in DOMAIN res.distribution
            /\ res.distribution["No Response"] = [count |-> 2, percentage |-> 667]
    /\ \E id \in DOMAIN last.body.questions.cq :
        last.body.questions.cq[id].total_responses = 0

-----------------------------------------------------------------------------
(* Properties of the response recorder *)

\* C7: complete_survey with a valid response code never answers with an error
\* (no completion step that answers other than 200 is a call with a code of a
\* response of the project) and leaves the response the code names with
\* is_complete = true, on the first call and on every later one; no other
\* response and no answer is changed.
C7_CompleteIsIdempotent ==
    [][ last'.op = "complete_survey" =>
        /\ last'.status # 200 =>
                \A ac \in AccessCodeInputs, rc \in IssuedCodes :
                    (\E r \in responses : /\ r.response_code = rc
                                           /\ r.project_id = ProjectByCode(ac))
                        => ~complete_survey(ac, rc, now)
        /\ last'.status = 200 =>
                /\ \A rc \in IssuedCodes :
                        complete_survey(access_code[last'.project], rc, now)
                            => \E n \in responses' : /\ n.response_code = rc
                                                      /\ n.id = last'.body.response_id
                /\ {r.id : r \in responses'} = {r.id : r \in responses}
                /\ \A r \in responses :
                        IF r.id = last'.body.response_id
                        THEN \E n \in responses' : /\ n.id = r.id
                                                   /\ n.response_code = r.response_code
                                                   /\ n.project_id = r.project_id
                                                   /\ n.is_complete = TRUE
                        ELSE r \in responses'
                /\ answers' = answers
      ]_vars

\* a response that was complete already was completed again, after its
\* project stopped being active, while another response and an answer exist
C7_Witness ==
    /\ last.op = "complete_survey"
    /\ last.status = 200
    /\ last.body.was_complete = TRUE
    /\ status[last.project] # "active"
    /\ \E r \in responses : r.id # last.body.response_id
    /\ answers # {}

\* C8: while the status of a project is not `active', start_survey and
\* submit_answer on it answer 400 and change no row; when it is active,
\* start_survey answers 201 and inserts exactly one response, not complete,
\* with a response code no stored response has.
C8_OnlyActiveProjectsAreSurveyed ==
    [][ /\ (last'.op = "start_survey" /\ last'.project # NULL)
            => IF status[last'.project] # "active"
               THEN last'.status = 400 /\ UNCHANGED db
               ELSE /\ last'.status = 201
                    /\ answers' = answers
                    /\ \E r \in responses' :
                        /\ r \notin responses
                        /\ responses' = responses \cup {r}
                        /\ r.project_id = last'.project
                        /\ r.is_complete = FALSE
                        /\ r.response_code = last'.body.response_code
                        /\ \A o \in responses : o.response_code # r.response_code
                                                    /\ o.id # r.id
        /\ (last'.op = "submit_answer" /\ last'.project # NULL
                /\ status[last'.project] # "active")
            => last'.status = 400 /\ UNCHANGED db
      ]_vars

\* a request to start or to answer was refused with 400 on a closed project
\* that has a response
C8_Witness ==
    /\ last.op \in {"start_survey", "submit_answer"}
    /\ last.status = 400
    /\ status[last.project] = "closed"
    /\ \E r \in responses : r.project_id = last.project

\* C9: complete_survey for a response whose project is not active is rejected
\* and leaves the response as it was.
C9_CompletionGatedOnActive ==
    [][ ( /\ last'.op = "complete_survey"
          /\ last'.project # NULL
          /\ status[last'.project] # "active" )
        => last'.status >= 400 /\ responses' = responses
      ]_vars

\* C10: once a response is complete, no submit_answer creates an answer for it
\* or changes one of its answers.
C10_AnswersFrozenAtCompletion ==
    [][ \A r \in responses :
            r.is_complete
                => {a \in answers' : a.response_id = r.id}
                        = {a \in answers : a.response_id = r.id}
      ]_vars

\* C11: once a SurveyResponse has is_complete = true it keeps it in every
\* later state: no start, answer, complete, sync, project update or question
\* delete removes the row or clears the flag.
C11_CompleteIsPermanent ==
    [][ \A r \in responses :
            r.is_complete
                => \E n \in responses' : /\ n.id = r.id
                                         /\ n.response_code = r.response_code
                                         /\ n.is_complete = TRUE
      ]_vars

\* a sync dropped a question from the set of a closed project that has a
\* completed response with a stored answer
C11_Witness ==
    /\ last.op \in SyncOps
    /\ last.status = 201
    /\ last.body.removed # {}
    /\ status[last.project] = "closed"
    /\ \E r \in responses : /\ r.is_complete
                            /\ r.completed_at # NULL
                            /\ \E a \in answers : a.response_id = r.id

-----------------------------------------------------------------------------
(* Properties of the stored rows *)

\* C12: every ResponseAnswer row references exactly one question: of its
\* project_question_id and custom_question_id one is set and the other is
\* NULL; submit_answer stores no row with both set and none with both NULL.
C12_AnswerNamesExactlyOneQuestion ==
    \A a \in answers :
        (a.project_question_id # NULL) <=> (a.custom_question_id = NULL)

\* C13: within one project a bank question has at most one ProjectQuestion
\* row, after any sequence of add_project_question and bulk sync calls.
C13_OneRowPerBankQuestion ==
    \A a, b \in pqs :
        (a.project_id = b.project_id /\ a.master_question_id = b.master_question_id)
            => a = b

\* C15: the ProjectQuestions and CustomQuestions of a project draw their
\* question_order from one counter: no ProjectQuestion and CustomQuestion of
\* the same project carry the same question_order, when no call supplied an
\* explicit order.
C15_OneOrderCounterPerProject ==
    \A pq \in pqs, cq \in cqs :
        pq.project_id = cq.project_id => pq.question_order # cq.question_order

\* C14: order numbers are never reused within a project.  Over any sequence
\* of bulk syncs and question deletions, the question_order a bulk sync gives
\* to a new ProjectQuestion is strictly greater than every order a
\* ProjectQuestion of that project was ever given, the orders of rows deleted
\* since included.
C14_OrdersNeverReused ==
    [][ SyncStep =>
            \A n \in pqs' :
                n.id \notin PQIds => n.question_order > order_high[n.project_id]
      ]_vars

-----------------------------------------------------------------------------
(* Properties of the project status *)

\* C16: opened_at is set exactly once, by the first update_project that moves
\* the status into `active', and closed_at exactly once, by the first that
\* moves it into `closed': the first such move stamps the time of the call,
\* and no later status change (a second activation after a close, a second
\* close after a reopening) changes a timestamp that is set.
C16_TimestampsSetOnce ==
    [][ \A p \in Projects :
            /\ (opened_at[p] = NULL /\ status[p] # "active" /\ status'[p] = "active")
                    => opened_at'[p] = now'
            /\ (closed_at[p] = NULL /\ status[p] # "closed" /\ status'[p] = "closed")
                    => closed_at'[p] = now'
            /\ opened_at[p] # NULL => opened_at'[p] = opened_at[p]
            /\ closed_at[p] # NULL => closed_at'[p] = closed_at[p]
      ]_vars

-----------------------------------------------------------------------------
(* Properties of the bulk sync *)

\* C17: bulk sync sanitizes its id list: a null, an empty or a non-numeric
\* entry is dropped and a repeated id counts once.  On a project with no
\* question, a list with k distinct valid ids creates exactly k
\* ProjectQuestions, one per id, with the orders 1..k, and the response
\* reports exactly those ids as added (nothing updated or removed, total k).
C17_SyncSanitizesIds ==
    [][ (SyncStep /\ ProjectQuestionsOf(last'.project) = {}) =>
            LET raw == last'.body.raw_ids
                valid == {raw[i].n : i \in {j \in DOMAIN raw : raw[j].t = "int"}}
                            \cup {n \in 1..9 : \E i \in DOMAIN raw :
                                        raw[i].t = "str" /\ raw[i].s = StrOf(n)}
                k == Cardinality(valid)
                new == {q \in pqs' : q.project_id = last'.project}
            IN  /\ last'.body.added = valid
                /\ last'.body.updated = {}
                /\ last'.body.removed = {}
                /\ last'.body.total = k
                /\ Cardinality(new) = k
                /\ {q.master_question_id : q \in new} = valid
                /\ {q.question_order : q \in new} = 1..k
                /\ {q \in pqs' : q.project_id # last'.project}
                        = {q \in pqs : q.project_id # last'.project}
      ]_vars

\* the list [1, 1, "abc", null, "3"] was synced into the empty project 1,
\* which now has two questions, bank ids 1 and 3, with the orders 1 and 2
C17_Witness ==
    /\ last.op \in SyncOps
    /\ last.status = 201
    /\ last.body.raw_ids = <<JsonInt(1), JsonInt(1), JsonStr("abc"), JsonNull, JsonStr("3")>>
    /\ last.body.added = {1, 3}
    /\ {<<q.master_question_id, q.question_order>> : q \in ProjectQuestionsOf(1)}
            = {<<1, 1>>, <<3, 2>>}

\* C18: bulk sync is atomic.  While a sync is between its first query and
\* its commit the stored question set is as it was; the step that ends the
\* call either answers 201 and makes every insertion, every update and every
\* deletion of the call visible at once, or fails and leaves the stored
\* question set untouched.
C18_SyncIsAtomic ==
    [][ /\ session'.phase # "none" => pqs' = pqs
        /\ (session.phase # "none" /\ session'.phase = "none") =>
                IF last'.status = 201
                THEN LET old == {q \in pqs : q.project_id = last'.project}
                         new == {q \in pqs' : q.project_id = last'.project}
                     IN  /\ \A m \in last'.body.added :
                                \E n \in new : /\ n.master_question_id = m
                                               /\ n.id \notin PQIds
                         /\ \A q \in old :
                                q.master_question_id \in last'.body.updated
                                    => \E n \in new : n.id = q.id
                         /\ \A q \in old :
                                ( /\ q.master_question_id \in last'.body.removed
                                  /\ ~\E a \in answers : a.project_question_id = q.id )
                                    => ~\E n \in new : n.id = q.id
                ELSE pqs' = pqs
      ]_vars

\* a sync that deleted one question and inserted another has committed
C18_Witness ==
    /\ session.phase = "none"
    /\ last.op \in SyncOps
    /\ last.status = 201
    /\ last.body.added # {}
    /\ last.body.removed # {}
    /\ \E q \in pqs : q.master_question_id \in last.body.added
    /\ ~\E q \in pqs : q.master_question_id \in last.body.removed

-----------------------------------------------------------------------------
(* Properties of the export layout *)

\* C19: the CSV header lists, after `Response ID' and `Completed', one column
\* per question of the project in the merged ordering space: the Q-numbers
\* are in non-decreasing question_order across ProjectQuestions and
\* CustomQuestions together; every data row has one cell per column.
C19_CsvColumnsInMergedOrder ==
    (last.op = "export_csv" /\ last.status = 200) =>
        LET headers == last.body.headers
            number(i) == CHOOSE n \in 1..9 : QLabel(n) = headers[i]
        IN  /\ Len(headers) = 2 + Cardinality(ProjectQuestionsOf(last.project))
                                + Cardinality(CustomQuestionsOf(last.project))
            /\ headers[1] = "Response ID"
            /\ headers[2] = "Completed"
            /\ \A i, j \in 3..Len(headers) : i < j => number(i) <= number(j)
            /\ \A id \in DOMAIN last.body.rows :
                    Len(last.body.rows[id].cells) = Len(headers) - 2

-----------------------------------------------------------------------------
(* Properties relating the two bulk handlers *)

\* C20: the admin bulk sync and the client bulk sync run the same algorithm:
\* from the same stored tables, with the same id list and the same
\* custom_options (an override for bank question 2) for the same project,
\* they can leave the same
\* ProjectQuestion rows (ids, orders, overrides) and return the same status
\* and the same added / updated / removed / total.
C20_AdminAndClientSyncAgree ==
    LET override == {[key |-> "2", customOptions |-> <<[text |-> "Maybe", code |-> "m"]>>]}
    IN  \A project \in Projects, raw_ids \in SyncIdLists :
            add_bulk_questions_results(project, raw_ids, override)
                = update_project_questions_by_code_results(project, raw_ids, override)

\* after a client sync, project 1 holds an answered question and a sync of
\* [2, 3] would add one question, update one and drop one
C20_Witness ==
    /\ last.op = "update_project_questions_by_code"
    /\ last.status = 201
    /\ \E pq \in ProjectQuestionsOf(1) : \E a \in answers : a.project_question_id = pq.id
    /\ \E result \in add_bulk_questions_results(1, <<JsonInt(2), JsonInt(3)>>, {}) :
        /\ result.status = 201
        /\ result.body.added # {}
        /\ result.body.updated # {}
        /\ result.body.removed # {}
        /\ result.pqs # pqs

-----------------------------------------------------------------------------
(* Properties of the bulk sync response *)

\* C21: a bulk sync reports what it did: `added' is exactly the bank ids for
\* which a ProjectQuestion was created, `updated' exactly the bank ids whose
\* row was kept and rewritten, `removed' exactly the bank ids whose
\* ProjectQuestion row this call removed, and `total' the number of
\* questions selected.
C21_SyncReportsWhatItDid ==
    [][ SyncStep =>
            LET old == {q \in pqs : q.project_id = last'.project}
                new == {q \in pqs' : q.project_id = last'.project}
                created == {n \in new : n.id \notin {q.id : q \in old}}
                gone == {q \in old : q.id \notin {n.id : n \in new}}
            IN  /\ last'.body.added = {n.master_question_id : n \in created}
                /\ last'.body.removed = {q.master_question_id : q \in gone}
                /\ last'.body.updated \subseteq {q.master_question_id : q \in old \ gone}
                /\ last'.body.total
                        = Cardinality(last'.body.added \cup last'.body.updated)
      ]_vars

-----------------------------------------------------------------------------
(* Properties of the completion timestamp *)

\* C22: completed_at is set once, on completion: it is absent while the
\* response is incomplete, the first successful complete_survey sets it to
\* the time of the call, and no later operation on the response changes it.
C22_CompletedAtSetOnce ==
    [][ \A r \in responses :
            /\ ~r.is_complete => r.completed_at = NULL
            /\ \A n \in responses' :
                n.id = r.id =>
                    /\ (~r.is_complete /\ n.is_complete) => n.completed_at = now'
                    /\ r.completed_at # NULL => n.completed_at = r.completed_at
      ]_vars

-----------------------------------------------------------------------------
(* Properties of concurrent requests *)

\* C23: when two submit_answer requests for the same response and the same
\* question run concurrently, each doing its lookup before the other
\* commits, the committed state still holds exactly one ResponseAnswer for
\* the (response, question) pair, and it carries the values of the request
\* that committed last.
C23_ConcurrentAnswersUpsert ==
    [][ \A rq \in inflight :
            (rq.kind = "answer" /\ rq \notin inflight') =>
                LET rows == {a \in answers' :
                                /\ a.response_id = rq.response_id
                                /\ a.project_question_id = rq.project_question_id}
                IN  /\ Cardinality(rows) = 1
                    /\ \A a \in rows : /\ a.answer_text = rq.data.answer_text
                                       /\ a.answer_code = rq.data.answer_code
      ]_vars


\* C24: when a bulk sync that un-selects a question interleaves with a
\* submit_answer for that question's ProjectQuestion (the sync's
\* has-responses check runs before the answer commits, its delete commits
\* after), no stored ResponseAnswer is left referring to a deleted
\* ProjectQuestion: the row an answer refers to stays in the table.
C24_NoAnswerLosesItsQuestion ==
    [][ \A a \in answers :
            a.project_question_id \in PQIds =>
                a.project_question_id \in {q.id : q \in pqs'}
      ]_vars


\* C25: a ProjectQuestion that a sync keeps only because it has answers
\* (its bank id is reported as removed, the row stays) is no longer part of
\* the active survey: a get_survey that follows does not list it, while its
\* answers remain stored.
C25_KeptRowLeavesTheSurvey ==
    [][ ( /\ last.op \in SyncOps /\ last.status = 201
          /\ last'.op = "get_survey" /\ last'.status = 200 ) =>
            \A q \in ProjectQuestionsOf(last.project) :
                q.master_question_id \in last.body.removed =>
                    /\ q.id \notin last'.body.pq_ids
                    /\ \E a \in answers' : a.project_question_id = q.id
      ]_vars

-----------------------------------------------------------------------------
(* Properties of the option overrides *)

\* C26: for every bank id both selected before and requested now, a bulk
\* sync sets the stored override of the row of that bank id to the override
\* the call supplies for it, and to none when the call supplies none or an
\* empty one, whatever was stored before; every other row that stays keeps
\* its override.
C26_SyncRewritesOverrides ==
    \A raw_ids \in OverridesIdLists, custom_options \in OverrideInputs :
        \A result \in add_bulk_questions_results(1, raw_ids, custom_options)
                        \cup update_project_questions_by_code_results(1, raw_ids, custom_options) :
            result.status = 201 =>
                \A q \in ProjectQuestionsOf(1), n \in result.pqs :
                    n.id = q.id =>
                        IF q.master_question_id \in result.body.updated
                        THEN LET supplied == {e \in custom_options :
                                                /\ e.key = StrOf(q.master_question_id)
                                                /\ e.customOptions # <<>>}
                             IN  IF supplied = {} THEN n.custom_options_json = <<>>
                                 ELSE \E e \in supplied :
                                        n.custom_options_json = JsonDumps(e.customOptions)
                        ELSE n.custom_options_json = q.custom_options_json

-----------------------------------------------------------------------------
(* Properties of the single-question deletes *)

\* C27: deleting a single question that has recorded answers is a
\* validation error: delete_project_question_by_code and
\* delete_custom_question_by_code answer 400 when a ResponseAnswer refers to
\* the row they are asked to delete, and then the question rows, the
\* options and the answers are all as before.
C27_AnsweredQuestionIsNotDeleted ==
    [][ \A ac \in KnownCodes :
          /\ \A question_id \in 1..DeleteMaxQ :
                ( /\ last'.op = "delete_project_question_by_code"
                  /\ \E pq \in pqs : pq.id = question_id /\ pq.project_id = ProjectByCode(ac)
                  /\ \E a \in answers : a.project_question_id = question_id
                  /\ delete_project_question_by_code(ac, question_id) )
                => ( last'.status = 400 /\ UNCHANGED db )
          /\ \A question_id \in 1..DeleteMaxQ :
                ( /\ last'.op = "delete_custom_question_by_code"
                  /\ \E cq \in cqs : cq.id = question_id /\ cq.project_id = ProjectByCode(ac)
                  /\ \E a \in answers : a.custom_question_id = question_id
                  /\ delete_custom_question_by_code(ac, question_id) )
                => ( last'.status = 400 /\ UNCHANGED db )
      ]_vars

\* a client delete was refused while project 1 holds an answered bank
\* question and an answered custom question that has an option
C27_Witness ==
    /\ last.op \in {"delete_project_question_by_code", "delete_custom_question_by_code"}
    /\ last.status = 400
    /\ \E pq \in ProjectQuestionsOf(1) : \E a \in answers : a.project_question_id = pq.id
    /\ \E cq \in CustomQuestionsOf(1) :
        /\ \E a \in answers : a.custom_question_id = cq.id
        /\ \E o \in cros : o.custom_question_id = cq.id


\* C28: bank questions are numbered atomically: create_question requests
\* that omit question_number and run concurrently are assigned different
\* numbers, so the number a creation is given is carried by no question
\* stored before it.
C28_AutoNumbersNeverDuplicated ==
    [][ \A n \in master_questions' \ master_questions :
            \A m \in master_questions : m.question_number # n.question_number
      ]_vars

-----------------------------------------------------------------------------
(* Properties of repeated requests *)

\* C29: bulk sync is idempotent on the stored state: when the same sync
\* request (same handler, project and id list) runs a second time with
\* nothing in between, the ProjectQuestion rows of the project (row ids, bank
\* ids, orders, overrides) stay exactly as the first run left them and the
\* second run reports nothing as added.
C29_SyncIsIdempotent ==
    [][ ( /\ last.op \in SyncOps /\ last.status = 201
          /\ SyncStep
          /\ last'.op = last.op /\ last'.project = last.project
          /\ last'.body.raw_ids = last.body.raw_ids ) =>
            /\ {q \in pqs' : q.project_id = last.project}
                    = {q \in pqs : q.project_id = last.project}
            /\ last'.body.added = {}
      ]_vars

-----------------------------------------------------------------------------
(* Properties of the answers' references *)

\* C30: answers stay inside their project: every ResponseAnswer that a
\* request records names a ProjectQuestion or CustomQuestion that is stored
\* and belongs to the project of the answer's SurveyResponse; submit_answer
\* records no answer for a question of another project or for a question
\* that does not exist.
C30_AnswersStayInsideTheirProject ==
    [][ \A a \in answers' \ answers :
            \A r \in responses' :
                r.id = a.response_id =>
                    /\ a.project_question_id # NULL =>
                        \E pq \in pqs' : /\ pq.id = a.project_question_id
                                         /\ pq.project_id = r.project_id
                    /\ a.custom_question_id # NULL =>
                        \E cq \in cqs' : /\ cq.id = a.custom_question_id
                                         /\ cq.project_id = r.project_id
      ]_vars

====
